---- MODULE Spec2Model ----
(***************************************************************************)
(* EduGatorTutoring: the session / join-request / enrollment handlers of   *)
(* sessionController.js and messageController.js over the relational       *)
(* store.  Every handler is a transition function over (store, call): one  *)
(* application is the code between two awaited store queries.  Spec runs   *)
(* each handler to completion in one action; SpecC lets up to MaxInFlight  *)
(* calls interleave at their awaits (the handlers use pool.query with      *)
(* autocommit and open no transaction).                                    *)
(***************************************************************************)
EXTENDS Integers, Sequences, FiniteSets, Bags, TLC

VARIABLES sessions, session_courses, session_attendees, session_join_requests,
          messages, user_messages, auto_increment, calls

vars == <<sessions, session_courses, session_attendees, session_join_requests,
          messages, user_messages, auto_increment, calls>>

(* ------------------------------ bounds -------------------------------- *)
\* users 1..NumUsers exist; user 1 is the tutor, the others are students
NumUsers == 3
\* sessions / join requests / messages ever inserted (AUTO_INCREMENT ids)
MaxSessions == 1
MaxRequests == 3
MaxMessages == 5
\* messages ever inserted while calls interleave (SpecC)
MaxMessagesC == 3
\* handler invocations in flight at once under SpecC
MaxInFlight == 2

(* ------------------------- static store content ----------------------- *)
UserIds == 1..NumUsers

\* users table: registration is outside the modelled handlers
users == { [user_id |-> u, role |-> IF u = 1 THEN "Tutor" ELSE "Student"] : u \in UserIds }

CourseIds == {1, 2}

\* tutor_courses table: tutor 1 is registered for course 1 only
tutor_courses == { [tutor_user_id |-> 1, course_id |-> 1] }

(* --------------------------- store as a value -------------------------- *)
DB == [ sessions              |-> sessions,
        session_courses       |-> session_courses,
        session_attendees     |-> session_attendees,
        session_join_requests |-> session_join_requests,
        messages              |-> messages,
        user_messages         |-> user_messages,
        auto_increment        |-> auto_increment ]

Range(s) == { s[i] : i \in DOMAIN s }

\* the SELECT with LIMIT 1: at most the first row of session sid
SelectSeq2_FirstOnly(s, sid, i) ==
  IF \E k \in i..Len(s) : s[k].session_id = sid
  THEN <<s[CHOOSE k \in i..Len(s) :
               s[k].session_id = sid /\ \A j \in i..(k - 1) : s[j].session_id # sid]>>
  ELSE <<>>

RECURSIVE SelectSeq2(_, _, _)
\* the subsequence of s whose rows have field session_id = sid (WHERE session_id = ?)
SelectSeq2(s, sid, i) ==
  IF i > Len(s) THEN <<>>
  ELSE IF s[i].session_id = sid
       THEN <<s[i]>> \o SelectSeq2(s, sid, i + 1)
       ELSE SelectSeq2(s, sid, i + 1)

\* a count that is raised by every acceptance and never lowered: the number
\* of acceptances ever notified
EnrolledCount_EverEnrolled(db, sid) ==
  Cardinality({ i \in DOMAIN db.messages : db.messages[i].subject = "Request Accepted" })

\* the COUNT without its WHERE clause: the attendees of all sessions
EnrolledCount_AllSessions(db, sid) == Len(db.session_attendees)

\* SELECT COUNT(*) FROM session_attendees WHERE session_id = ?
EnrolledCount(db, sid) ==
  Cardinality({ i \in DOMAIN db.session_attendees : db.session_attendees[i].session_id = sid })

\* SELECT 1 FROM session_attendees WHERE session_id = ? AND user_id = ?
IsEnrolled(db, sid, uid) ==
  \E i \in DOMAIN db.session_attendees :
     /\ db.session_attendees[i].session_id = sid
     /\ db.session_attendees[i].user_id = uid

\* rows of session_join_requests of one (session, requester) pair
RequestsOf(db, sid, uid) ==
  { r \in db.session_join_requests : r.session_id = sid /\ r.requester_user_id = uid }

\* a set of rows with a request_id, as the sequence a scan by primary key returns
RECURSIVE ByRequestId(_)
ByRequestId(S) ==
  IF S = {} THEN <<>>
  ELSE LET r == CHOOSE x \in S : \A y \in S : x.request_id <= y.request_id
       IN <<r>> \o ByRequestId(S \ {r})

(* ----------------------------- store writes ---------------------------- *)
\* the INSERT with the sender and the receiver in each other's place
InsertMessage_Swapped(db, sender, receiver, type, subject) ==
  [db EXCEPT !.messages = Append(@, [message_id   |-> db.auto_increment.messages,
                                     sender_id    |-> receiver,
                                     receiver_id  |-> sender,
                                     message_type |-> type,
                                     subject      |-> subject]),
             !.auto_increment.messages = @ + 1]

\* INSERT INTO messages (...): the row gets the next AUTO_INCREMENT message_id
InsertMessage(db, sender, receiver, type, subject) ==
  [db EXCEPT !.messages = Append(@, [message_id   |-> db.auto_increment.messages,
                                     sender_id    |-> sender,
                                     receiver_id  |-> receiver,
                                     message_type |-> type,
                                     subject      |-> subject]),
             !.auto_increment.messages = @ + 1]

\* INSERT INTO user_messages (user_id, message_id, folder, is_read)
InsertUserMessage(db, uid, mid, folder, is_read) ==
  [db EXCEPT !.user_messages = @ \cup {[user_id |-> uid, message_id |-> mid,
                                        folder |-> folder, is_read |-> is_read]}]

\* a session_attendees table with no key over (session_id, user_id)
AttendeeKeyViolated_NoKey(db, sid, uid) == FALSE

\* The key of session_attendees: a (session, student) pair appears at most once
\* (spec section 3, Enrollment; section 4.2, DuplicateEnrollmentError).  TRUE
\* when the INSERT is refused with a duplicate-key error.
AttendeeKeyViolated(db, sid, uid) == IsEnrolled(db, sid, uid)

\* The rows of session_attendees and session_join_requests name their session
\* by session_id; the spec states no constraint that refuses a row whose session
\* row does not exist (section 3 gives the two tables only the keys above), and
\* deleteSession removes the rows of a session itself.  TRUE when an INSERT is
\* refused because session sid has no row.
SessionReferenceViolated(db, sid) == FALSE

\* the INSERT together with an UPDATE that takes a seat off the session's capacity
InsertAttendee_TakesSeat(db, sid, uid) ==
  [db EXCEPT !.session_attendees = Append(@, [session_id |-> sid, user_id |-> uid]),
             !.sessions = { IF x.session_id = sid THEN [x EXCEPT !.capacity = @ - 1] ELSE x
                            : x \in @ }]

\* INSERT INTO session_attendees (session_id, user_id); enrolled_at is the
\* insertion time, so the sequence is in enrolled_at order
InsertAttendee(db, sid, uid) ==
  [db EXCEPT !.session_attendees = Append(@, [session_id |-> sid, user_id |-> uid])]

\* a session_join_requests table with no key over (session_id, requester_user_id)
RequestKeyViolated_NoKey(db, sid, uid) == FALSE

\* The key of session_join_requests: one row per (session, requester) pair; a
\* denied row is deleted before a fresh one is inserted (spec section 3,
\* JoinRequest).  TRUE when the INSERT is refused with a duplicate-key error.
RequestKeyViolated(db, sid, uid) == RequestsOf(db, sid, uid) # {}

\* the INSERT with the message_id column left NULL (0)
InsertRequest_NoMessage(db, sid, uid, tid, mid) ==
  [db EXCEPT !.session_join_requests =
                 @ \cup {[request_id        |-> db.auto_increment.session_join_requests,
                          session_id        |-> sid,
                          requester_user_id |-> uid,
                          tutor_user_id     |-> tid,
                          message_id        |-> 0,
                          status            |-> "pending"]},
             !.auto_increment.session_join_requests = @ + 1]

\* INSERT INTO session_join_requests (...) VALUES (?, ?, ?, ?, 'pending')
InsertRequest(db, sid, uid, tid, mid) ==
  [db EXCEPT !.session_join_requests =
                 @ \cup {[request_id        |-> db.auto_increment.session_join_requests,
                          session_id        |-> sid,
                          requester_user_id |-> uid,
                          tutor_user_id     |-> tid,
                          message_id        |-> mid,
                          status            |-> "pending"]},
             !.auto_increment.session_join_requests = @ + 1]

\* the UPDATE without its WHERE clause: every row gets the status
UpdateRequestStatus_AllRows(db, rid, status) ==
  [db EXCEPT !.session_join_requests = { [r EXCEPT !.status = status] : r \in @ }]

\* the DELETE of the denied row left out
DeleteRequestsOf_Skipped(db, sid, uid) == db

\* DELETE FROM session_join_requests WHERE session_id = ? AND requester_user_id = ?
DeleteRequestsOf(db, sid, uid) ==
  [db EXCEPT !.session_join_requests = @ \ RequestsOf(db, sid, uid)]

\* UPDATE session_join_requests SET status = ? WHERE request_id = ?
UpdateRequestStatus(db, rid, status) ==
  [db EXCEPT !.session_join_requests =
       { IF r.request_id = rid THEN [r EXCEPT !.status = status] ELSE r : r \in @ }]

\* the UPDATE without requester_user_id in its WHERE clause
DowngradeAccepted_WholeSession(db, sid, uid) ==
  [db EXCEPT !.session_join_requests =
       { IF r.session_id = sid /\ r.status = "accepted"
         THEN [r EXCEPT !.status = "denied"] ELSE r : r \in @ }]

\* UPDATE session_join_requests SET status = 'denied'
\*  WHERE session_id = ? AND requester_user_id = ? AND status = 'accepted'
DowngradeAccepted(db, sid, uid) ==
  [db EXCEPT !.session_join_requests =
       { IF r.session_id = sid /\ r.requester_user_id = uid /\ r.status = "accepted"
         THEN [r EXCEPT !.status = "denied"] ELSE r : r \in @ }]

\* the DELETE without user_id in its WHERE clause
DeleteAttendee_WholeSession(db, sid, uid) ==
  [db EXCEPT !.session_attendees = SelectSeq(@, LAMBDA a : a.session_id # sid)]

\* DELETE FROM session_attendees WHERE session_id = ? AND user_id = ?
DeleteAttendee(db, sid, uid) ==
  [db EXCEPT !.session_attendees =
       SelectSeq(@, LAMBDA a : ~(a.session_id = sid /\ a.user_id = uid))]

(* ------------------------- handler invocations ------------------------- *)
\* an ownership test that lets every caller through
IsOwner_Anyone(tutor_id, userId) == TRUE

\* the negation of session.tutor_id !== userId, request.tutor_user_id !== tutorId
IsOwner(tutor_id, userId) == tutor_id = userId

NoRow == [none |-> TRUE]
NoInput == [none |-> TRUE]

\* a call of handler op by the logged-in user (req.session.userId) with request
\* parameters a, b and body in; pc is the await the call is suspended at
Call(op, user, a, b, in) ==
  [op |-> op, user |-> user, a |-> a, b |-> b, in |-> in, pc |-> "start",
   row |-> NoRow, rows |-> <<>>, rows2 |-> <<>>, i |-> 1, messageId |-> 0,
   status |-> 0, message |-> "", notified |-> {}, requestStatus |-> "null",
   data |-> NoRow]

\* return res.status(status).json({success, message}): the call is over and
\* its record is the response
Reply(db, c, status, message) ==
  [db |-> db, c |-> [c EXCEPT !.pc = "done", !.status = status, !.message = message]]

\* the call suspends at its next awaited query
Goto(db, c, pc) == [db |-> db, c |-> [c EXCEPT !.pc = pc]]

(* ---------------------- sessionController.createSession ---------------- *)
MaxTitleLength == 150
MaxCapacity == 50

\* title.trim().length of the titles the model submits
TitleLength(title) ==
  CASE title = ""     -> 0
    [] title = "LONG" -> MaxTitleLength + 1
    [] OTHER          -> 1

\* isNaN(new Date(str).getTime()): an unparseable date string is a negative number here
IsInvalidDate(t) == t < 0

\* a start that may be the present moment
IsNotInFuture_Strict(startDate, now) == startDate < now

\* if (startDate <= now)
IsNotInFuture(startDate, now) == startDate <= now

\* the capacity stored as it was asked for
FinalCapacity_AsGiven(sessionType, capacityNum) == capacityNum

\* finalCapacity: a one-on-one session holds one student whatever was asked for
FinalCapacity(sessionType, capacityNum) ==
  IF sessionType = "one_on_one" THEN 1 ELSE capacityNum

\* the checks of createSession, in the order of the code; "" when all pass
CreateSessionError(userId, in) ==
  CASE in.title = "" \/ in.sessionType = "" \/ in.startTime = 0 \/ in.endTime = 0
         \/ in.capacity = 0                       -> "Missing required fields"
    [] Len(in.courseIds) = 0                      -> "At least one course must be selected"
    [] TitleLength(in.title) > MaxTitleLength     -> "Session title must be 150 characters or less"
    [] in.sessionType \notin {"open", "one_on_one"} -> "Invalid session type"
    [] ~\E u \in users : u.user_id = userId /\ u.role = "Tutor"
                                                  -> "Only tutors can create sessions"
    [] Cardinality({ tc \in tutor_courses : tc.tutor_user_id = userId
                                             /\ tc.course_id \in Range(in.courseIds) })
         # Len(in.courseIds)                      -> "One or more courses not found"
    [] IsInvalidDate(in.startTime) \/ IsInvalidDate(in.endTime)
                                                  -> "Invalid date/time format"
    [] IsNotInFuture(in.startTime, in.now)        -> "Session must be scheduled in the future"
    [] in.endTime <= in.startTime                 -> "End time must be after start time"
    [] in.capacity < 1 \/ in.capacity > MaxCapacity -> "Capacity must be between 1 and 50"
    [] OTHER                                      -> ""

createSession(db, c) ==
  CASE c.pc = "start" ->
         LET err == CreateSessionError(c.user, c.in) IN
         IF err = "" THEN Goto(db, c, "insert_session")
         ELSE Reply(db, c, IF err = "Only tutors can create sessions" THEN 403 ELSE 400, err)
    [] c.pc = "insert_session" ->
         LET sessionId == db.auto_increment.sessions IN
         Goto([db EXCEPT !.sessions = @ \cup
                            {[session_id   |-> sessionId,
                              tutor_id     |-> c.user,
                              title        |-> c.in.title,
                              start_time   |-> c.in.startTime,
                              end_time     |-> c.in.endTime,
                              session_type |-> c.in.sessionType,
                              capacity     |-> FinalCapacity(c.in.sessionType, c.in.capacity),
                              status       |-> "scheduled"]},
                         !.auto_increment.sessions = @ + 1],
              [c EXCEPT !.a = sessionId], "insert_courses")
    [] c.pc = "insert_courses" ->
         Reply([db EXCEPT !.session_courses = @ \cup
                   { [session_id |-> c.a, course_id |-> c.in.courseIds[k]]
                       : k \in DOMAIN c.in.courseIds }],
               c, 201, "Session created successfully")

(* ------------------- messageController.sendSessionRequest -------------- *)
\* the capacity test off by one: a full session still takes one more student
IsFull_OffByOne(enrolled_count, capacity) == enrolled_count > capacity

\* a capacity test that never finds the session full
IsFull_Never(enrolled_count, capacity) == FALSE

\* a capacity test that finds every session with an attendee full
IsFull_AnyAttendee(enrolled_count, capacity) == enrolled_count >= 1

\* if (session.enrolled_count >= session.capacity)
IsFull(enrolled_count, capacity) == enrolled_count >= capacity

\* the self-request test left out
IsSelfRequest_Never(tutor_id, studentId) == FALSE

\* session.tutor_id === studentId
IsSelfRequest(tutor_id, studentId) == tutor_id = studentId

sendSessionRequest(db, c) ==
  LET studentId == c.user
      sessionId == c.a
      tutorId   == c.b
  IN
  CASE c.pc = "start" ->
         IF sessionId = 0 \/ tutorId = 0
         THEN Reply(db, c, 400, "Session ID and Tutor ID are required")
         ELSE
         LET found == { s \in db.sessions : s.session_id = sessionId } IN
         IF found = {} THEN Reply(db, c, 404, "Session not found")
         ELSE
         LET session == CHOOSE s \in found : TRUE
             enrolled_count == EnrolledCount(db, sessionId)
         IN
         IF session.tutor_id # tutorId
         THEN Reply(db, c, 400, "Invalid tutor for this session")
         ELSE IF IsSelfRequest(session.tutor_id, studentId)
         THEN Reply(db, c, 400, "You cannot request to join your own session")
         ELSE IF IsFull(enrolled_count, session.capacity)
         THEN Reply(db, c, 400, "This session is already full")
         ELSE Goto(db, c, "select_existing_requests")
    [] c.pc = "select_existing_requests" ->
         LET existingRequests == ByRequestId(RequestsOf(db, sessionId, studentId)) IN
         IF Len(existingRequests) > 0
         THEN LET existingStatus == existingRequests[1].status IN
              IF existingStatus = "pending"
              THEN Reply(db, c, 400, "You already have a pending request for this session")
              ELSE IF existingStatus = "accepted"
              THEN Reply(db, c, 400, "You are already enrolled in this session")
              ELSE Goto(db, c, "delete_old_request")
         ELSE Goto(db, c, "select_existing_enrollment")
    [] c.pc = "delete_old_request" ->
         Goto(DeleteRequestsOf(db, sessionId, studentId), c, "select_existing_enrollment")
    [] c.pc = "select_existing_enrollment" ->
         IF IsEnrolled(db, sessionId, studentId)
         THEN Reply(db, c, 400, "You are already enrolled in this session")
         ELSE Goto(db, c, "insert_message")
    [] c.pc = "insert_message" ->
         Goto(InsertMessage(db, studentId, tutorId, "session_join_request", "Session Request"),
              [c EXCEPT !.messageId = db.auto_increment.messages], "insert_sent")
    [] c.pc = "insert_sent" ->
         Goto(InsertUserMessage(db, studentId, c.messageId, "sent", 1), c, "insert_inbox")
    [] c.pc = "insert_inbox" ->
         Goto(InsertUserMessage(db, tutorId, c.messageId, "inbox", 0), c, "insert_request")
    [] c.pc = "insert_request" ->
         IF \/ RequestKeyViolated(db, sessionId, studentId)
            \/ SessionReferenceViolated(db, sessionId)
         THEN Reply(db, c, 500, "Failed to send request. Please try again.")
         ELSE Reply(InsertRequest(db, sessionId, studentId, tutorId, c.messageId),
                    c, 201, "Your request has been sent to the tutor")

(* ------------------ messageController.acceptSessionRequest ------------- *)
\* SELECT sjr.* ... FROM session_join_requests sjr INNER JOIN sessions s ...
\*  WHERE sjr.request_id = ?: the request rows whose session row exists
SelectRequest(db, requestId) ==
  { r \in db.session_join_requests :
       /\ r.request_id = requestId
       /\ \E s \in db.sessions : s.session_id = r.session_id }

\* the capacity column of the session the request row joins
CapacityOf(db, sid) == (CHOOSE s \in db.sessions : s.session_id = sid).capacity

acceptSessionRequest(db, c) ==
  LET tutorId   == c.user
      requestId == c.a
      request   == c.row
  IN
  CASE c.pc = "start" ->
         LET requests == SelectRequest(db, requestId) IN
         IF requests = {} THEN Reply(db, c, 404, "Request not found")
         ELSE
         LET req == CHOOSE r \in requests : TRUE IN
         IF ~IsOwner(req.tutor_user_id, tutorId)
         THEN Reply(db, c, 403, "You are not authorized to accept this request")
         ELSE IF req.status # "pending"
         THEN Reply(db, c, 400, "This request has already been " \o req.status)
         ELSE IF IsFull(EnrolledCount(db, req.session_id), CapacityOf(db, req.session_id))
         THEN Reply(db, c, 400, "This session is already full. Cannot accept more students.")
         ELSE Goto(db, [c EXCEPT !.row = req], "select_existing_enrollment")
    [] c.pc = "select_existing_enrollment" ->
         IF IsEnrolled(db, request.session_id, request.requester_user_id)
         THEN Goto(db, c, "update_already_enrolled")
         ELSE Goto(db, c, "update_accepted")
    [] c.pc = "update_already_enrolled" ->
         Reply(UpdateRequestStatus(db, requestId, "accepted"),
               c, 400, "Student is already enrolled in this session")
    [] c.pc = "update_accepted" ->
         Goto(UpdateRequestStatus(db, requestId, "accepted"), c, "insert_attendee")
    [] c.pc = "insert_attendee" ->
         IF \/ AttendeeKeyViolated(db, request.session_id, request.requester_user_id)
            \/ SessionReferenceViolated(db, request.session_id)
         THEN Reply(db, c, 500, "Failed to accept request. Please try again.")
         ELSE Goto(InsertAttendee(db, request.session_id, request.requester_user_id),
                   c, "insert_message")
    [] c.pc = "insert_message" ->
         Goto(InsertMessage(db, tutorId, request.requester_user_id, "normal", "Request Accepted"),
              [c EXCEPT !.messageId = db.auto_increment.messages], "insert_sent")
    [] c.pc = "insert_sent" ->
         Goto(InsertUserMessage(db, tutorId, c.messageId, "sent", 1), c, "insert_inbox")
    [] c.pc = "insert_inbox" ->
         Reply(InsertUserMessage(db, request.requester_user_id, c.messageId, "inbox", 0),
               c, 200, "has been enrolled in the session")

(* ------------------- messageController.denySessionRequest -------------- *)
denySessionRequest(db, c) ==
  LET tutorId   == c.user
      requestId == c.a
      request   == c.row
  IN
  CASE c.pc = "start" ->
         LET requests == SelectRequest(db, requestId) IN
         IF requests = {} THEN Reply(db, c, 404, "Request not found")
         ELSE
         LET req == CHOOSE r \in requests : TRUE IN
         IF ~IsOwner(req.tutor_user_id, tutorId)
         THEN Reply(db, c, 403, "You are not authorized to deny this request")
         ELSE IF req.status # "pending"
         THEN Reply(db, c, 400, "This request has already been " \o req.status)
         ELSE Goto(db, [c EXCEPT !.row = req], "update_denied")
    [] c.pc = "update_denied" ->
         Goto(UpdateRequestStatus(db, requestId, "denied"), c, "insert_message")
    [] c.pc = "insert_message" ->
         Goto(InsertMessage(db, tutorId, request.requester_user_id, "normal", "Request Update"),
              [c EXCEPT !.messageId = db.auto_increment.messages], "insert_sent")
    [] c.pc = "insert_sent" ->
         Goto(InsertUserMessage(db, tutorId, c.messageId, "sent", 1), c, "insert_inbox")
    [] c.pc = "insert_inbox" ->
         Reply(InsertUserMessage(db, request.requester_user_id, c.messageId, "inbox", 0),
               c, 200, "has been denied")

(* ---------------------- sessionController.deleteSession ---------------- *)
\* a successMessage that always carries notifiedCount
NotifiedInMessage_Always(notifiedCount) == {notifiedCount}

\* successMessage carries notifiedCount only when it is positive
NotifiedInMessage(notifiedCount) == IF notifiedCount > 0 THEN {notifiedCount} ELSE {}

deleteSession(db, c) ==
  LET userId == c.user
      id     == c.a
      pendingRequests  == c.rows
      enrolledStudents == c.rows2
  IN
  CASE c.pc = "start" ->
         LET found == { s \in db.sessions : s.session_id = id } IN
         IF found = {} THEN Reply(db, c, 404, "Session not found")
         ELSE
         LET session == CHOOSE s \in found : TRUE IN
         IF ~IsOwner(session.tutor_id, userId)
         THEN Reply(db, c, 403, "You can only delete your own sessions")
         ELSE Goto(db, [c EXCEPT !.row = session], "select_pending")
    [] c.pc = "select_pending" ->
         LET rows == ByRequestId({ r \in db.session_join_requests :
                                      r.session_id = id /\ r.status = "pending" })
         IN Goto(db, [c EXCEPT !.rows = rows, !.i = 1],
                 IF Len(rows) > 0 THEN "update_denied" ELSE "select_enrolled")
    [] c.pc = "update_denied" ->
         Goto(UpdateRequestStatus(db, pendingRequests[c.i].request_id, "denied"),
              c, "insert_denied_message")
    [] c.pc = "insert_denied_message" ->
         Goto(InsertMessage(db, userId, pendingRequests[c.i].requester_user_id,
                            "normal", "Session Cancelled"),
              [c EXCEPT !.messageId = db.auto_increment.messages], "insert_denied_sent")
    [] c.pc = "insert_denied_sent" ->
         Goto(InsertUserMessage(db, userId, c.messageId, "sent", 1), c, "insert_denied_inbox")
    [] c.pc = "insert_denied_inbox" ->
         Goto(InsertUserMessage(db, pendingRequests[c.i].requester_user_id,
                                c.messageId, "inbox", 0),
              [c EXCEPT !.i = @ + 1],
              IF c.i < Len(pendingRequests) THEN "update_denied" ELSE "select_enrolled")
    [] c.pc = "select_enrolled" ->
         LET rows == SelectSeq2(db.session_attendees, id, 1)
         IN Goto(db, [c EXCEPT !.rows2 = rows, !.i = 1],
                 IF Len(rows) > 0 THEN "insert_cancel_message" ELSE "delete_courses")
    [] c.pc = "insert_cancel_message" ->
         Goto(InsertMessage(db, userId, enrolledStudents[c.i].user_id,
                            "normal", "Session Cancelled"),
              [c EXCEPT !.messageId = db.auto_increment.messages], "insert_cancel_sent")
    [] c.pc = "insert_cancel_sent" ->
         Goto(InsertUserMessage(db, userId, c.messageId, "sent", 1), c, "insert_cancel_inbox")
    [] c.pc = "insert_cancel_inbox" ->
         Goto(InsertUserMessage(db, enrolledStudents[c.i].user_id, c.messageId, "inbox", 0),
              [c EXCEPT !.i = @ + 1],
              IF c.i < Len(enrolledStudents) THEN "insert_cancel_message" ELSE "delete_courses")
    [] c.pc = "delete_courses" ->
         Goto([db EXCEPT !.session_courses = { x \in @ : x.session_id # id }],
              c, "delete_attendees")
    [] c.pc = "delete_attendees" ->
         Goto([db EXCEPT !.session_attendees = SelectSeq(@, LAMBDA x : x.session_id # id)],
              c, "delete_requests")
    [] c.pc = "delete_requests" ->
         Goto([db EXCEPT !.session_join_requests = { x \in @ : x.session_id # id }],
              c, "delete_session")
    [] c.pc = "delete_session" ->
         Reply([db EXCEPT !.sessions = { x \in @ : x.session_id # id }],
               [c EXCEPT !.notified =
                   NotifiedInMessage(Len(pendingRequests) + Len(enrolledStudents))],
               200, "Session deleted successfully")

(* ----------------- sessionController.removeStudentFromSession ---------- *)
removeStudentFromSession(db, c) ==
  LET userId    == c.user
      id        == c.a
      studentId == c.b
  IN
  CASE c.pc = "start" ->
         LET found == { s \in db.sessions : s.session_id = id } IN
         IF found = {} THEN Reply(db, c, 404, "Session not found")
         ELSE
         LET session == CHOOSE s \in found : TRUE IN
         IF ~IsOwner(session.tutor_id, userId)
         THEN Reply(db, c, 403, "You are not authorized to modify this session")
         ELSE IF ~\E u \in users : u.user_id = studentId
         THEN Reply(db, c, 404, "Student not found")
         ELSE Goto(db, c, "delete_attendee")
    [] c.pc = "delete_attendee" ->
         LET affectedRows == Cardinality({ k \in DOMAIN db.session_attendees :
                                             /\ db.session_attendees[k].session_id = id
                                             /\ db.session_attendees[k].user_id = studentId })
         IN IF affectedRows = 0
            THEN Reply(db, c, 404, "Student not found in this session")
            ELSE Goto(DeleteAttendee(db, id, studentId), c, "update_request")
    [] c.pc = "update_request" ->
         Goto(DowngradeAccepted(db, id, studentId), c, "insert_message")
    [] c.pc = "insert_message" ->
         Goto(InsertMessage(db, userId, studentId, "normal", "Session Update"),
              [c EXCEPT !.messageId = db.auto_increment.messages], "insert_sent")
    [] c.pc = "insert_sent" ->
         Goto(InsertUserMessage(db, userId, c.messageId, "sent", 1), c, "insert_inbox")
    [] c.pc = "insert_inbox" ->
         Reply(InsertUserMessage(db, studentId, c.messageId, "inbox", 0),
               c, 200, "has been removed from the session and notified")

(* -------------------- sessionController.unenrollFromSession ------------ *)
unenrollFromSession(db, c) ==
  LET userId  == c.user
      id      == c.a
      session == c.row
  IN
  CASE c.pc = "start" ->
         LET found == { s \in db.sessions : s.session_id = id } IN
         IF found = {} THEN Reply(db, c, 404, "Session not found")
         ELSE Goto(db, [c EXCEPT !.row = CHOOSE s \in found : TRUE], "select_enrollment")
    [] c.pc = "select_enrollment" ->
         IF ~IsEnrolled(db, id, userId)
         THEN Reply(db, c, 400, "You are not enrolled in this session")
         ELSE Goto(db, c, "delete_attendee")
    [] c.pc = "delete_attendee" ->
         Goto(DeleteAttendee(db, id, userId), c, "update_request")
    [] c.pc = "update_request" ->
         Goto(DowngradeAccepted(db, id, userId), c, "insert_message")
    [] c.pc = "insert_message" ->
         Goto(InsertMessage(db, userId, session.tutor_id, "normal", "Student Unenrolled"),
              [c EXCEPT !.messageId = db.auto_increment.messages], "insert_sent")
    [] c.pc = "insert_sent" ->
         Goto(InsertUserMessage(db, userId, c.messageId, "sent", 1), c, "insert_inbox")
    [] c.pc = "insert_inbox" ->
         Reply(InsertUserMessage(db, session.tutor_id, c.messageId, "inbox", 0),
               c, 200, "Successfully unenrolled from the session")

(* --------------- messageController.getSessionRequestStatus ------------- *)
\* the request's status reported before the Enrollment is looked at
StatusOf_RequestFirst(enrolled, requests) ==
  IF Len(requests) > 0 THEN requests[1].status
  ELSE IF enrolled THEN "enrolled" ELSE "null"

\* the status field of the response: enrollment.length > 0 is tested first,
\* then requests.length > 0; "null" is status: null
StatusOf(enrolled, requests) ==
  IF enrolled THEN "enrolled"
  ELSE IF Len(requests) > 0 THEN requests[1].status
  ELSE "null"

getSessionRequestStatus(db, c) ==
  LET studentId == c.user
      sessionId == c.a
      requests  == c.rows
  IN
  CASE c.pc = "start" ->
         Goto(db, [c EXCEPT !.rows = ByRequestId(RequestsOf(db, sessionId, studentId))],
              "select_enrollment")
    [] c.pc = "select_enrollment" ->
         Reply(db, [c EXCEPT !.requestStatus =
                                 StatusOf(IsEnrolled(db, sessionId, studentId), requests)],
               200, "status")

(* ---------------- sessionController.getSessionEnrollments -------------- *)
\* the requests SELECT without status = 'pending' in its WHERE clause
PendingRequestsOf_AnyStatus(db, sid) ==
  ByRequestId({ r \in db.session_join_requests : r.session_id = sid })

\* SELECT ... FROM session_join_requests sjr ... WHERE sjr.session_id = ? AND
\*  sjr.status = 'pending' ORDER BY sjr.created_at ASC; created_at is the
\*  insertion time, so the rows come in request_id order
PendingRequestsOf(db, sid) ==
  ByRequestId({ r \in db.session_join_requests : r.session_id = sid /\ r.status = "pending" })

getSessionEnrollments(db, c) ==
  LET userId      == c.user
      id          == c.a
      session     == c.row
      enrollments == c.rows2
  IN
  CASE c.pc = "start" ->
         LET found == { s \in db.sessions : s.session_id = id } IN
         IF found = {} THEN Reply(db, c, 404, "Session not found")
         ELSE
         LET s0 == CHOOSE s \in found : TRUE IN
         IF ~IsOwner(s0.tutor_id, userId)
         THEN Reply(db, c, 403, "You are not authorized to view this session's enrollments")
         ELSE Goto(db, [c EXCEPT !.row = s0], "select_enrollments")
    [] c.pc = "select_enrollments" ->
         \* ... WHERE sa.session_id = ? ORDER BY sa.enrolled_at ASC: the rows of
         \* session_attendees are kept in enrolled_at order
         Goto(db, [c EXCEPT !.rows2 = SelectSeq2(db.session_attendees, id, 1)],
              "select_pending")
    [] c.pc = "select_pending" ->
         LET pendingRequests == PendingRequestsOf(db, id) IN
         Reply(db, [c EXCEPT !.rows = pendingRequests,
                             !.data = [sessionId       |-> session.session_id,
                                       capacity        |-> session.capacity,
                                       enrolledCount   |-> Len(enrollments),
                                       enrollments     |-> enrollments,
                                       pendingRequests |-> pendingRequests]],
               200, "data")

(* ------------------- messageController: folders and drafts ------------- *)
\* String.prototype.trim on the subjects and bodies the model submits: " " is
\* the text that is all whitespace
Trim(s) == IF s = " " THEN "" ELSE s

\* INSERT INTO messages (sender_id, receiver_id, subject, message_content):
\* message_type is left to the column's default and is not read by these handlers
InsertMessageContent(db, sender, receiver, subject, content) ==
  [db EXCEPT !.messages = Append(@, [message_id      |-> db.auto_increment.messages,
                                     sender_id       |-> sender,
                                     receiver_id     |-> receiver,
                                     subject         |-> subject,
                                     message_content |-> content]),
             !.auto_increment.messages = @ + 1]

\* SELECT ... FROM user_messages WHERE user_id = ? AND message_id = ?
CopiesOf(db, uid, mid) ==
  { um \in db.user_messages : um.user_id = uid /\ um.message_id = mid }

\* SELECT ... FROM messages WHERE message_id = ?
MessageRows(db, mid) == { m \in Range(db.messages) : m.message_id = mid }

\* UPDATE user_messages SET folder = ? WHERE user_id = ? AND message_id = ?
SetFolder(db, uid, mid, folder) ==
  [db EXCEPT !.user_messages =
     { IF um.user_id = uid /\ um.message_id = mid THEN [um EXCEPT !.folder = folder] ELSE um
       : um \in @ }]

\* DELETE FROM user_messages WHERE user_id = ? AND message_id = ?
DeleteCopy(db, uid, mid) ==
  [db EXCEPT !.user_messages = { um \in @ : ~(um.user_id = uid /\ um.message_id = mid) }]

\* DELETE FROM user_messages WHERE user_id = ? AND folder = 'trash'
DeleteTrash(db, uid) ==
  [db EXCEPT !.user_messages = { um \in @ : ~(um.user_id = uid /\ um.folder = "trash") }]

\* SELECT COUNT(*) FROM user_messages WHERE message_id = ? AND user_id != ?
OtherEntries(db, mid, uid) ==
  Cardinality({ um \in db.user_messages : um.message_id = mid /\ um.user_id # uid })

\* restoreFromTrash's choice of the folder a trashed copy goes back to
OriginalFolder(count, sender_id, userId) ==
  IF count = 0 /\ sender_id = userId THEN "drafts"
  ELSE IF sender_id = userId THEN "sent"
  ELSE "inbox"

\* the body of sendMessage, saveDraft and updateDraft is c.in: receiverId (0 when
\* absent), subject and message; the model addresses recipients by receiverId
sendMessage(db, c) ==
  LET senderId     == c.user
      targetUserId == c.in.receiverId
  IN
  CASE c.pc = "start" ->
         IF targetUserId = 0 THEN Reply(db, c, 400, "Recipient is required")
         ELSE IF Trim(c.in.subject) = "" THEN Reply(db, c, 400, "Subject is required")
         ELSE IF Trim(c.in.message) = "" THEN Reply(db, c, 400, "Message content is required")
         ELSE IF targetUserId = senderId
              THEN Reply(db, c, 400, "You cannot send a message to yourself")
         ELSE IF ~\E u \in users : u.user_id = targetUserId
              THEN Reply(db, c, 404, "Recipient not found")
         ELSE Goto(db, c, "insert_message")
    [] c.pc = "insert_message" ->
         Goto(InsertMessageContent(db, senderId, targetUserId,
                                   Trim(c.in.subject), Trim(c.in.message)),
              [c EXCEPT !.messageId = db.auto_increment.messages], "insert_sent")
    [] c.pc = "insert_sent" ->
         Goto(InsertUserMessage(db, senderId, c.messageId, "sent", 1), c, "insert_inbox")
    [] c.pc = "insert_inbox" ->
         Reply(InsertUserMessage(db, targetUserId, c.messageId, "inbox", 0),
               c, 201, "Message sent successfully")

saveDraft(db, c) ==
  LET senderId         == c.user
      targetUserId     == c.in.receiverId
      \* the sender stands in for a receiver that was not given
      actualReceiverId == IF targetUserId # 0 THEN targetUserId ELSE senderId
  IN
  CASE c.pc = "start" ->
         Goto(InsertMessageContent(db, senderId, actualReceiverId, c.in.subject, c.in.message),
              [c EXCEPT !.messageId = db.auto_increment.messages], "insert_drafts")
    [] c.pc = "insert_drafts" ->
         Reply(InsertUserMessage(db, senderId, c.messageId, "drafts", 1), c, 201, "Draft saved")

updateDraft(db, c) ==
  LET userId       == c.user
      messageId    == c.a
      targetUserId == c.in.receiverId
  IN
  CASE c.pc = "start" ->
         IF { um \in CopiesOf(db, userId, messageId) : um.folder = "drafts" } = {}
         THEN Reply(db, c, 404, "Draft not found")
         ELSE Goto(db, c, "update_message")
    [] c.pc = "update_message" ->
         Reply([db EXCEPT !.messages =
                  [i \in DOMAIN db.messages |->
                     IF db.messages[i].message_id # messageId THEN db.messages[i]
                     ELSE IF targetUserId # 0
                          THEN [db.messages[i] EXCEPT !.receiver_id     = targetUserId,
                                            !.subject         = c.in.subject,
                                            !.message_content = c.in.message]
                          ELSE [db.messages[i] EXCEPT !.subject         = c.in.subject,
                                            !.message_content = c.in.message]]],
               c, 200, "Draft updated")

sendDraft(db, c) ==
  LET userId    == c.user
      messageId == c.a
      draft     == c.row
  IN
  CASE c.pc = "start" ->
         LET drafts == { m \in MessageRows(db, messageId) :
                           \E um \in CopiesOf(db, userId, messageId) : um.folder = "drafts" }
         IN
         IF drafts = {} THEN Reply(db, c, 404, "Draft not found")
         ELSE LET d == CHOOSE m \in drafts : TRUE IN
              IF d.receiver_id = userId
              THEN Reply(db, c, 400, "Please specify a valid recipient before sending")
              ELSE IF Trim(d.subject) = "" THEN Reply(db, c, 400, "Subject is required")
              ELSE IF Trim(d.message_content) = ""
                   THEN Reply(db, c, 400, "Message content is required")
              ELSE Goto(db, [c EXCEPT !.row = d], "select_recipient")
    [] c.pc = "select_recipient" ->
         IF ~\E u \in users : u.user_id = draft.receiver_id
         THEN Reply(db, c, 404, "Recipient not found")
         ELSE Goto(db, c, "update_time_sent")
    [] c.pc = "update_time_sent" ->
         \* time_sent is no column of the model
         Goto(db, c, "update_folder")
    [] c.pc = "update_folder" ->
         Goto(SetFolder(db, userId, messageId, "sent"), c, "insert_inbox")
    [] c.pc = "insert_inbox" ->
         Reply(InsertUserMessage(db, draft.receiver_id, messageId, "inbox", 0),
               c, 200, "Message sent successfully")

deleteMessage(db, c) ==
  LET userId    == c.user
      messageId == c.a
  IN
  CASE c.pc = "start" ->
         LET userMessages == CopiesOf(db, userId, messageId) IN
         IF userMessages = {} THEN Reply(db, c, 404, "Message not found")
         ELSE IF (CHOOSE um \in userMessages : TRUE).folder = "trash"
              THEN Goto(db, c, "delete_copy")
              ELSE Goto(db, c, "update_folder")
    [] c.pc = "delete_copy" ->
         Reply(DeleteCopy(db, userId, messageId), c, 200, "Message permanently deleted")
    [] c.pc = "update_folder" ->
         Reply(SetFolder(db, userId, messageId, "trash"), c, 200, "Message moved to trash")

restoreFromTrash(db, c) ==
  LET userId    == c.user
      messageId == c.a
      msg       == c.row
  IN
  CASE c.pc = "start" ->
         LET userMessages == { m \in MessageRows(db, messageId) :
                                 \E um \in CopiesOf(db, userId, messageId) : um.folder = "trash" }
         IN
         IF userMessages = {} THEN Reply(db, c, 404, "Message not found in trash")
         ELSE Goto(db, [c EXCEPT !.row = CHOOSE m \in userMessages : TRUE], "count_others")
    [] c.pc = "count_others" ->
         Goto(db, [c EXCEPT !.data = [originalFolder |->
                      OriginalFolder(OtherEntries(db, messageId, userId), msg.sender_id, userId)]],
              "update_folder")
    [] c.pc = "update_folder" ->
         Reply(SetFolder(db, userId, messageId, c.data.originalFolder),
               c, 200, "Message restored to " \o c.data.originalFolder)

deleteDraft(db, c) ==
  LET userId    == c.user
      messageId == c.a
  IN
  CASE c.pc = "start" ->
         IF { um \in CopiesOf(db, userId, messageId) : um.folder = "drafts" } = {}
         THEN Reply(db, c, 404, "Draft not found")
         ELSE Goto(db, c, "delete_copy")
    [] c.pc = "delete_copy" ->
         Goto(DeleteCopy(db, userId, messageId), c, "count_entries")
    [] c.pc = "count_entries" ->
         IF { um \in db.user_messages : um.message_id = messageId } = {}
         THEN Goto(db, c, "delete_message")
         ELSE Reply(db, c, 200, "Draft permanently deleted")
    [] c.pc = "delete_message" ->
         Reply([db EXCEPT !.messages = SelectSeq(@, LAMBDA m : m.message_id # messageId)],
               c, 200, "Draft permanently deleted")

emptyTrash(db, c) ==
  LET userId == c.user IN
  CASE c.pc = "start" ->
         Reply(DeleteTrash(db, userId),
               [c EXCEPT !.data = [affectedRows |->
                  Cardinality({ um \in db.user_messages :
                                  um.user_id = userId /\ um.folder = "trash" })]],
               200, "Deleted messages from trash")

(* ------------------------------ dispatch ------------------------------- *)
\* one step of a call: the code from the await it is suspended at to the next one
Handler(db, c) ==
  CASE c.op = "createSession"            -> createSession(db, c)
    [] c.op = "sendSessionRequest"       -> sendSessionRequest(db, c)
    [] c.op = "acceptSessionRequest"     -> acceptSessionRequest(db, c)
    [] c.op = "denySessionRequest"       -> denySessionRequest(db, c)
    [] c.op = "deleteSession"            -> deleteSession(db, c)
    [] c.op = "removeStudentFromSession" -> removeStudentFromSession(db, c)
    [] c.op = "unenrollFromSession"      -> unenrollFromSession(db, c)
    [] c.op = "getSessionRequestStatus"  -> getSessionRequestStatus(db, c)
    [] c.op = "getSessionEnrollments"    -> getSessionEnrollments(db, c)
    [] c.op = "sendMessage"              -> sendMessage(db, c)
    [] c.op = "saveDraft"                -> saveDraft(db, c)
    [] c.op = "updateDraft"              -> updateDraft(db, c)
    [] c.op = "sendDraft"                -> sendDraft(db, c)
    [] c.op = "deleteMessage"            -> deleteMessage(db, c)
    [] c.op = "restoreFromTrash"         -> restoreFromTrash(db, c)
    [] c.op = "deleteDraft"              -> deleteDraft(db, c)
    [] c.op = "emptyTrash"               -> emptyTrash(db, c)

RECURSIVE Run(_, _)
\* a call run to its response with no other call in between
Run(db, c) ==
  IF c.pc = "done" THEN [db |-> db, c |-> c]
  ELSE LET r == Handler(db, c) IN Run(r.db, r.c)

\* the AUTO_INCREMENT counters stay within the bounds of the model
Within(db) ==
  /\ db.auto_increment.sessions <= MaxSessions + 1
  /\ db.auto_increment.session_join_requests <= MaxRequests + 1
  /\ db.auto_increment.messages <= MaxMessages + 1

Commit(db) ==
  /\ sessions' = db.sessions
  /\ session_courses' = db.session_courses
  /\ session_attendees' = db.session_attendees
  /\ session_join_requests' = db.session_join_requests
  /\ messages' = db.messages
  /\ user_messages' = db.user_messages
  /\ auto_increment' = db.auto_increment

Idle == Call("idle", 0, 0, 0, NoInput)

(* ------------------------------- inputs -------------------------------- *)
SessionIds == 0..MaxSessions
RequestIds == 1..MaxRequests

\* req.body of createSession and the clock: 0 is a missing field, -1 an
\* unparseable date.  Every well-formed body, and each of them with one field
\* replaced by each value of that field's set.
ValidSessionInputs ==
  [ title       : {"T"},
    sessionType : {"open", "one_on_one"},
    courseIds   : {<<1>>},
    startTime   : {2},
    endTime     : {3},
    capacity    : {1, 2},
    now         : {1} ]

CreateSessionInputs ==
  UNION { {[v EXCEPT !.title = x]       : x \in {"", "T", "LONG"}}
          \cup {[v EXCEPT !.sessionType = x] : x \in {"", "open", "one_on_one", "group"}}
          \cup {[v EXCEPT !.courseIds = x]   : x \in {<<>>, <<1>>, <<2>>, <<1, 2>>, <<1, 1>>}}
          \cup {[v EXCEPT !.startTime = x]   : x \in {-1, 0, 1, 2, 3}}
          \cup {[v EXCEPT !.endTime = x]     : x \in {-1, 0, 2, 3}}
          \cup {[v EXCEPT !.capacity = x]    : x \in {0, 1, 2, MaxCapacity, MaxCapacity + 1}}
          : v \in ValidSessionInputs }

(* ------------------------------- Init ---------------------------------- *)
Init ==
  /\ sessions = {}
  /\ session_courses = {}
  /\ session_attendees = <<>>
  /\ session_join_requests = {}
  /\ messages = <<>>
  /\ user_messages = {}
  /\ auto_increment = [sessions |-> 1, session_join_requests |-> 1, messages |-> 1]
  /\ calls = EmptyBag

(* ------------- Spec: every call runs to completion, one at a time ------ *)
Complete(c) ==
  LET r == Run(DB, c) IN
  /\ Within(r.db)
  /\ Commit(r.db)
  /\ UNCHANGED calls

CreateSessionCall ==
  /\ auto_increment.sessions <= MaxSessions
  /\ \E u \in UserIds, in \in CreateSessionInputs :
        Complete(Call("createSession", u, 0, 0, in))

SendSessionRequestCall ==
  \E u \in UserIds, sid \in SessionIds, tid \in {0} \cup UserIds :
     Complete(Call("sendSessionRequest", u, sid, tid, NoInput))

AcceptSessionRequestCall ==
  \E u \in UserIds, rid \in RequestIds : Complete(Call("acceptSessionRequest", u, rid, 0, NoInput))

DenySessionRequestCall ==
  \E u \in UserIds, rid \in RequestIds : Complete(Call("denySessionRequest", u, rid, 0, NoInput))

DeleteSessionCall ==
  \E u \in UserIds, sid \in SessionIds : Complete(Call("deleteSession", u, sid, 0, NoInput))

RemoveStudentFromSessionCall ==
  \E u \in UserIds, sid \in SessionIds, st \in {0} \cup UserIds :
     Complete(Call("removeStudentFromSession", u, sid, st, NoInput))

UnenrollFromSessionCall ==
  \E u \in UserIds, sid \in SessionIds : Complete(Call("unenrollFromSession", u, sid, 0, NoInput))

GetSessionRequestStatusCall ==
  \E u \in UserIds, sid \in SessionIds :
     Complete(Call("getSessionRequestStatus", u, sid, 0, NoInput))

GetSessionEnrollmentsCall ==
  \E u \in UserIds, sid \in SessionIds :
     Complete(Call("getSessionEnrollments", u, sid, 0, NoInput))

Next ==
  \/ CreateSessionCall
  \/ SendSessionRequestCall
  \/ AcceptSessionRequestCall
  \/ DenySessionRequestCall
  \/ DeleteSessionCall
  \/ RemoveStudentFromSessionCall
  \/ UnenrollFromSessionCall
  \/ GetSessionRequestStatusCall
  \/ GetSessionEnrollmentsCall

Spec == Init /\ [][Next]_vars

(* -------- SpecC: up to MaxInFlight calls interleave at their awaits ----- *)
\* The two user_messages inserts that follow every messages insert write rows no
\* handler of this model reads, keyed by a message_id only the inserting call
\* holds: they commute with every step of every other call, so SpecC runs them
\* right after the messages insert instead of suspending the call at them.
UserMessagePcs ==
  {"insert_sent", "insert_inbox", "insert_denied_sent", "insert_denied_inbox",
   "insert_cancel_sent", "insert_cancel_inbox"}

RECURSIVE Advance(_, _)
\* one step of a call, and the user_messages inserts that follow it
Advance(db, c) ==
  LET r == Handler(db, c) IN
  IF r.c.pc \in UserMessagePcs THEN Advance(r.db, r.c) ELSE r

WithinC(db) == Within(db) /\ db.auto_increment.messages <= MaxMessagesC + 1

\* a request arrives and runs to its first awaited query's result; it is taken up
\* only while the counters leave room for the rows it inserts when run alone
Begin(c) ==
  /\ BagCardinality(calls) < MaxInFlight
  /\ WithinC(Run(DB, c).db)
  /\ LET r == Advance(DB, c) IN
     /\ WithinC(r.db)
     /\ Commit(r.db)
     /\ calls' = IF r.c.pc = "done" THEN calls ELSE calls (+) SetToBag({r.c})

\* a suspended call of handler op gets its query's result and runs to the next await
Resume(op) ==
  \E c \in BagToSet(calls) :
     /\ c.op = op
     /\ LET r == Advance(DB, c) IN
        /\ WithinC(r.db)
        /\ Commit(r.db)
        /\ calls' = IF r.c.pc = "done" THEN calls (-) SetToBag({c})
                    ELSE (calls (-) SetToBag({c})) (+) SetToBag({r.c})

CreateSessionBegin ==
  /\ auto_increment.sessions <= MaxSessions
  /\ \E u \in UserIds, in \in CreateSessionInputs :
        Begin(Call("createSession", u, 0, 0, in))

SendSessionRequestBegin ==
  \E u \in UserIds, sid \in SessionIds, tid \in {0} \cup UserIds :
     Begin(Call("sendSessionRequest", u, sid, tid, NoInput))

AcceptSessionRequestBegin ==
  \E u \in UserIds, rid \in RequestIds : Begin(Call("acceptSessionRequest", u, rid, 0, NoInput))

DenySessionRequestBegin ==
  \E u \in UserIds, rid \in RequestIds : Begin(Call("denySessionRequest", u, rid, 0, NoInput))

DeleteSessionBegin ==
  \E u \in UserIds, sid \in SessionIds : Begin(Call("deleteSession", u, sid, 0, NoInput))

RemoveStudentFromSessionBegin ==
  \E u \in UserIds, sid \in SessionIds, st \in {0} \cup UserIds :
     Begin(Call("removeStudentFromSession", u, sid, st, NoInput))

UnenrollFromSessionBegin ==
  \E u \in UserIds, sid \in SessionIds : Begin(Call("unenrollFromSession", u, sid, 0, NoInput))

GetSessionRequestStatusBegin ==
  \E u \in UserIds, sid \in SessionIds :
     Begin(Call("getSessionRequestStatus", u, sid, 0, NoInput))

CreateSessionResume == Resume("createSession")

SendSessionRequestResume == Resume("sendSessionRequest")

AcceptSessionRequestResume == Resume("acceptSessionRequest")

DenySessionRequestResume == Resume("denySessionRequest")

DeleteSessionResume == Resume("deleteSession")

RemoveStudentFromSessionResume == Resume("removeStudentFromSession")

UnenrollFromSessionResume == Resume("unenrollFromSession")

GetSessionRequestStatusResume == Resume("getSessionRequestStatus")

NextC ==
  \/ CreateSessionBegin
  \/ SendSessionRequestBegin
  \/ AcceptSessionRequestBegin
  \/ DenySessionRequestBegin
  \/ DeleteSessionBegin
  \/ RemoveStudentFromSessionBegin
  \/ UnenrollFromSessionBegin
  \/ GetSessionRequestStatusBegin
  \/ CreateSessionResume
  \/ SendSessionRequestResume
  \/ AcceptSessionRequestResume
  \/ DenySessionRequestResume
  \/ DeleteSessionResume
  \/ RemoveStudentFromSessionResume
  \/ UnenrollFromSessionResume
  \/ GetSessionRequestStatusResume

SpecC == Init /\ [][NextC]_vars

(* ------ SpecF: calls run one at a time, and an awaited query may throw --- *)
\* every call a client can make in this model
AllCalls ==
  { Call("createSession", u, 0, 0, in) : u \in UserIds, in \in CreateSessionInputs }
  \cup { Call("sendSessionRequest", u, sid, tid, NoInput) :
            u \in UserIds, sid \in SessionIds, tid \in {0} \cup UserIds }
  \cup { Call(op, u, rid, 0, NoInput) :
            op \in {"acceptSessionRequest", "denySessionRequest"},
            u \in UserIds, rid \in RequestIds }
  \cup { Call(op, u, sid, 0, NoInput) :
            op \in {"deleteSession", "unenrollFromSession", "getSessionRequestStatus"},
            u \in UserIds, sid \in SessionIds }
  \cup { Call("removeStudentFromSession", u, sid, st, NoInput) :
            u \in UserIds, sid \in SessionIds, st \in {0} \cup UserIds }

RECURSIVE Suspensions(_, _)
\* the (store, call) pairs at which call c is suspended at an awaited query when
\* it runs from store db with no other call in between; as in SpecC the two
\* user_messages inserts go with the messages insert before them
Suspensions(db, c) ==
  IF c.pc = "done" THEN {}
  ELSE LET r == Advance(db, c) IN {[db |-> db, c |-> c]} \cup Suspensions(r.db, r.c)

\* pool.query rejects at one of a call's awaits: the handler's catch block
\* answers 500; the queries the call has already run were each committed on
\* their own and stay
FailureIn(ops) ==
  \E c \in AllCalls :
     /\ c.op \in ops
     /\ \E r \in Suspensions(DB, c) :
           /\ WithinC(r.db)
           /\ Commit(Reply(r.db, r.c, 500, "Failed").db)
           /\ UNCHANGED calls

\* a query of any handler fails
StoreFailure == FailureIn({ c.op : c \in AllCalls })

\* SpecF keeps to the MaxMessagesC messages of SpecC
NextF ==
  \/ Next /\ WithinC(DB')
  \/ StoreFailure

SpecF == Init /\ [][NextF]_vars

(* ------ SpecT: two sessions, calls run one at a time -------------------- *)
MaxSessionsT == 2
MaxRequestsT == 2
MaxMessagesT == 3

SessionIdsT == 1..MaxSessionsT
RequestIdsT == 1..MaxRequestsT

WithinT(db) ==
  /\ db.auto_increment.sessions <= MaxSessionsT + 1
  /\ db.auto_increment.session_join_requests <= MaxRequestsT + 1
  /\ db.auto_increment.messages <= MaxMessagesT + 1

\* the calls of SpecT: the well-formed bodies of an open session, and every
\* caller, session, request and student of the other handlers that write
CallsT ==
  { Call("createSession", u, 0, 0, in) :
       u \in UserIds, in \in { v \in ValidSessionInputs : v.sessionType = "open" } }
  \cup { Call("sendSessionRequest", u, sid, tid, NoInput) :
            u \in UserIds, sid \in SessionIdsT, tid \in UserIds }
  \cup { Call(op, u, rid, 0, NoInput) :
            op \in {"acceptSessionRequest", "denySessionRequest"},
            u \in UserIds, rid \in RequestIdsT }
  \cup { Call(op, u, sid, 0, NoInput) :
            op \in {"deleteSession", "unenrollFromSession"},
            u \in UserIds, sid \in SessionIdsT }
  \cup { Call("removeStudentFromSession", u, sid, st, NoInput) :
            u \in UserIds, sid \in SessionIdsT, st \in UserIds }

CallT ==
  \E c \in CallsT :
     LET r == Run(DB, c) IN
     /\ WithinT(r.db)
     /\ Commit(r.db)
     /\ UNCHANGED calls

NextT == CallT

SpecT == Init /\ [][NextT]_vars

(* ---- SpecM: the message folders, every call run to completion --------- *)
MaxMessagesM == 2

MessageIdsM == 1..MaxMessagesM

\* the users that call the message handlers; the other users only receive
CallersM == {1, 2}

\* subject and body of the submitted messages: two well-formed texts, one with
\* a subject that is all whitespace and one with no body
ContentsM == { <<"S", "B">>, <<"T", "B">>, <<" ", "B">>, <<"S", "">> }

\* req.body of sendMessage, saveDraft and updateDraft; NumUsers + 1 is the id of
\* no user
MessageInputs ==
  { [receiverId |-> r, subject |-> x[1], message |-> x[2]] :
      r \in 0..(NumUsers + 1), x \in ContentsM }

\* drafts are addressed to users that exist, or to nobody
DraftInputs == { in \in MessageInputs : in.receiverId <= NumUsers }

WithinM(db) == db.auto_increment.messages <= MaxMessagesM + 1

CompleteM(c) ==
  LET r == Run(DB, c) IN
  /\ WithinM(r.db)
  /\ Commit(r.db)
  /\ UNCHANGED calls

SendMessageCall ==
  /\ auto_increment.messages <= MaxMessagesM
  /\ \E u \in CallersM, in \in MessageInputs : CompleteM(Call("sendMessage", u, 0, 0, in))

SaveDraftCall ==
  /\ auto_increment.messages <= MaxMessagesM
  /\ \E u \in CallersM, in \in DraftInputs : CompleteM(Call("saveDraft", u, 0, 0, in))

UpdateDraftCall ==
  \E u \in CallersM, mid \in MessageIdsM, in \in DraftInputs :
     CompleteM(Call("updateDraft", u, mid, 0, in))

SendDraftCall ==
  \E u \in CallersM, mid \in MessageIdsM : CompleteM(Call("sendDraft", u, mid, 0, NoInput))

DeleteMessageCall ==
  \E u \in CallersM, mid \in MessageIdsM : CompleteM(Call("deleteMessage", u, mid, 0, NoInput))

RestoreFromTrashCall ==
  \E u \in CallersM, mid \in MessageIdsM : CompleteM(Call("restoreFromTrash", u, mid, 0, NoInput))

DeleteDraftCall ==
  \E u \in CallersM, mid \in MessageIdsM : CompleteM(Call("deleteDraft", u, mid, 0, NoInput))

EmptyTrashCall ==
  \E u \in CallersM : CompleteM(Call("emptyTrash", u, 0, 0, NoInput))

NextM ==
  \/ SendMessageCall
  \/ SaveDraftCall
  \/ UpdateDraftCall
  \/ SendDraftCall
  \/ DeleteMessageCall
  \/ RestoreFromTrashCall
  \/ DeleteDraftCall
  \/ EmptyTrashCall

SpecM == Init /\ [][NextM]_vars

(* =============================== claims ================================ *)
Quiescent == calls = EmptyBag

\* rows of session_attendees of one (session, student) pair
EnrollmentsOf(sid, uid) ==
  { i \in DOMAIN session_attendees :
       session_attendees[i].session_id = sid /\ session_attendees[i].user_id = uid }

\* C1: in every state reached by calls that each run to completion one at a
\* time, the number of Enrollments of each session is at most its capacity.
C1_CapacityNeverExceeded ==
  \A s \in sessions : EnrolledCount(DB, s.session_id) <= s.capacity

\* a full session with another student's request still pending: the accept that
\* filled it has acted, and the capacity test is what stands before the next one
C1_Witness ==
  \E s \in sessions :
     /\ EnrolledCount(DB, s.session_id) = s.capacity
     /\ \E r \in session_join_requests : r.session_id = s.session_id /\ r.status = "pending"
     /\ \E r \in session_join_requests : r.session_id = s.session_id /\ r.status = "accepted"

\* C2: when accept calls for different pending requests of one session run
\* concurrently, their reads and writes interleaved, the number of attendee rows
\* of the session never exceeds its capacity.
C2_CapacityUnderConcurrentAccepts ==
  \A s \in sessions :
     Cardinality({ i \in DOMAIN session_attendees :
                     session_attendees[i].session_id = s.session_id }) <= s.capacity

\* C3: no (session, student) pair has a pending JoinRequest and an Enrollment
\* at the same time.
C3_NeverPendingAndEnrolled ==
  \A r \in session_join_requests :
     r.status = "pending" => EnrollmentsOf(r.session_id, r.requester_user_id) = {}

C6_AcceptedHasOneEnrollment ==
  Quiescent =>
    \A r \in session_join_requests :
       r.status = "accepted" =>
          Cardinality(EnrollmentsOf(r.session_id, r.requester_user_id)) = 1

\* C7: for as long as an Enrollment (s, u) exists there is a JoinRequest for
\* (s, u) with status accepted, also while accept and deny of the same request
\* interleave.
C7_EnrollmentHasAcceptedRequest ==
  \A i \in DOMAIN session_attendees :
     \E r \in session_join_requests :
        /\ r.session_id = session_attendees[i].session_id
        /\ r.requester_user_id = session_attendees[i].user_id
        /\ r.status = "accepted"

\* the messages rows of post that pre does not hold
NewMessages(pre, post) == SubSeq(post.messages, Len(pre.messages) + 1, Len(post.messages))

\* post keeps every messages row of pre, unchanged and in place
KeepsMessages(pre, post) ==
  /\ Len(post.messages) >= Len(pre.messages)
  /\ SubSeq(post.messages, 1, Len(pre.messages)) = pre.messages

\* the tutor_id of the session row sid
OwnerOf(db, sid) == (CHOOSE s \in db.sessions : s.session_id = sid).tutor_id

\* C8: every accept that answers 200 for a request r found r pending and left it
\* accepted, appended the one Enrollment (r.session, r.student), and inserted one
\* message, from the tutor who owns the session to r.student; every other
\* request, Enrollment, message, session and course row is as it was.
C8_AcceptEffect ==
  \A u \in UserIds, rid \in RequestIds :
     LET pre  == DB
         res  == Run(pre, Call("acceptSessionRequest", u, rid, 0, NoInput))
         post == res.db
     IN res.c.status = 200 =>
        \E r \in pre.session_join_requests :
           /\ r.request_id = rid
           /\ r.status = "pending"
           /\ post.session_join_requests =
                 (pre.session_join_requests \ {r}) \cup {[r EXCEPT !.status = "accepted"]}
           /\ post.session_attendees =
                 Append(pre.session_attendees,
                        [session_id |-> r.session_id, user_id |-> r.requester_user_id])
           /\ KeepsMessages(pre, post)
           /\ Len(NewMessages(pre, post)) = 1
           /\ NewMessages(pre, post)[1].sender_id = OwnerOf(pre, r.session_id)
           /\ NewMessages(pre, post)[1].receiver_id = r.requester_user_id
           /\ post.sessions = pre.sessions
           /\ post.session_courses = pre.session_courses

\* an accept has just answered 200 (its message is the last one) for a session
\* that already had another student's Enrollment and request
C8_Witness ==
  /\ Len(messages) > 0
  /\ messages[Len(messages)].subject = "Request Accepted"
  /\ Len(session_attendees) = 2
  /\ session_attendees[2].user_id = messages[Len(messages)].receiver_id
  /\ session_attendees[1].user_id # session_attendees[2].user_id
  /\ Cardinality(session_join_requests) = 2

\* C9: every deny that answers 200 for a request r found r pending and left it
\* denied, inserted one message, from the tutor who owns the session to
\* r.student, and left the Enrollments of every session as they were.
C9_DenyEffect ==
  \A u \in UserIds, rid \in RequestIds :
     LET pre  == DB
         res  == Run(pre, Call("denySessionRequest", u, rid, 0, NoInput))
         post == res.db
     IN res.c.status = 200 =>
        \E r \in pre.session_join_requests :
           /\ r.request_id = rid
           /\ r.status = "pending"
           /\ post.session_join_requests =
                 (pre.session_join_requests \ {r}) \cup {[r EXCEPT !.status = "denied"]}
           /\ KeepsMessages(pre, post)
           /\ Len(NewMessages(pre, post)) = 1
           /\ NewMessages(pre, post)[1].sender_id = OwnerOf(pre, r.session_id)
           /\ NewMessages(pre, post)[1].receiver_id = r.requester_user_id
           /\ post.session_attendees = pre.session_attendees

\* a deny has just answered 200 (its message is the last one) while the session
\* holds another student's Enrollment
C9_Witness ==
  /\ Len(messages) > 0
  /\ messages[Len(messages)].subject = "Request Update"
  /\ \E r \in session_join_requests :
        /\ r.status = "denied"
        /\ r.requester_user_id = messages[Len(messages)].receiver_id
  /\ \E i \in DOMAIN session_attendees :
        session_attendees[i].user_id # messages[Len(messages)].receiver_id

\* the pending JoinRequests of session sid
PendingOf(db, sid) ==
  { r \in db.session_join_requests : r.session_id = sid /\ r.status = "pending" }

\* what a deleteSession of session sid by user u that answers 200 does to the
\* store, and Reported(n) as what its response says of the n notified students
DeleteSessionEffect(u, sid, Reported(_)) ==
  LET pre  == DB
      res  == Run(pre, Call("deleteSession", u, sid, 0, NoInput))
      post == res.db
      N    == Cardinality(PendingOf(pre, sid))
      M    == EnrolledCount(pre, sid)
      new  == NewMessages(pre, post)
  IN res.c.status = 200 =>
       /\ u = OwnerOf(pre, sid)
       /\ KeepsMessages(pre, post)
       /\ Len(new) = N + M
       /\ \A i \in DOMAIN new : new[i].sender_id = u /\ new[i].subject = "Session Cancelled"
       /\ \A st \in UserIds :
             Cardinality({ i \in DOMAIN new : new[i].receiver_id = st })
               = Cardinality({ r \in PendingOf(pre, sid) : r.requester_user_id = st })
                 + Cardinality({ i \in DOMAIN pre.session_attendees :
                                   /\ pre.session_attendees[i].session_id = sid
                                   /\ pre.session_attendees[i].user_id = st })
       /\ res.c.notified = Reported(N + M)
       /\ EnrolledCount(post, sid) = 0
       /\ \A r \in post.session_join_requests : r.session_id # sid
       /\ \A x \in post.session_courses : x.session_id # sid
       /\ \A s \in post.sessions : s.session_id # sid

C11_ReRequestAfterDenial ==
  \A u \in UserIds : \A s \in sessions :
     LET pre  == DB
         sid  == s.session_id
         old  == RequestsOf(pre, sid, u)
         res  == Run(pre, Call("sendSessionRequest", u, sid, s.tutor_id, NoInput))
         post == res.db
     IN ( /\ \E r \in old : r.status = "denied"
          /\ ~IsEnrolled(pre, sid, u)
          /\ u # s.tutor_id
          /\ EnrolledCount(pre, sid) < s.capacity )
        => /\ res.c.status = 201
           /\ Cardinality(RequestsOf(post, sid, u)) = 1
           /\ \A r \in RequestsOf(post, sid, u) : r.status = "pending"
           /\ \A r \in old : \A n \in post.session_join_requests :
                 n.request_id # r.request_id

\* a student whose request was denied (the denial's message is there) has
\* requested again: the pair's only row is pending and is not the first row
C11_Witness ==
  \E r \in session_join_requests :
     /\ r.status = "pending"
     /\ r.request_id > 1
     /\ RequestsOf(DB, r.session_id, r.requester_user_id) = {r}
     /\ \E i \in DOMAIN messages :
           /\ messages[i].subject = "Request Update"
           /\ messages[i].receiver_id = r.requester_user_id
     /\ messages[Len(messages)].subject = "Session Request"
     /\ messages[Len(messages)].sender_id = r.requester_user_id

\* C12: a createRequest on a session whose Enrollment count is at least its
\* capacity is rejected for every caller and leaves every table as it was: no
\* JoinRequest and no message is created; a student other than the tutor who
\* names the session's tutor is told that the session is full.
C12_FullSessionRejectsRequests ==
  \A u \in UserIds, tid \in {0} \cup UserIds : \A s \in sessions :
     LET pre == DB
         res == Run(pre, Call("sendSessionRequest", u, s.session_id, tid, NoInput))
     IN EnrolledCount(pre, s.session_id) >= s.capacity
        => /\ res.c.status = 400
           /\ res.db = pre
           /\ (tid = s.tutor_id /\ u # s.tutor_id)
                 => res.c.message = "This session is already full"

\* a one_on_one session with its one student enrolled, and another student who
\* has neither a request nor an Enrollment and so can only be stopped by the
\* capacity test
C12_Witness ==
  \E s \in sessions : \E u \in UserIds :
     /\ s.session_type = "one_on_one"
     /\ EnrolledCount(DB, s.session_id) = 1
     /\ u # s.tutor_id
     /\ ~IsEnrolled(DB, s.session_id, u)
     /\ RequestsOf(DB, s.session_id, u) = {}

\* C13: pending requests reserve no capacity.  An accept by the owner of a
\* pending request answers 200 whenever the session has fewer Enrollments than
\* its capacity, however many other requests are pending; once the Enrollments
\* reach the capacity it answers 400 as full and leaves every table as it was:
\* the request stays pending, and no Enrollment and no message is created.
C13_AcceptUpToCapacity ==
  \A rid \in RequestIds : \A r \in SelectRequest(DB, rid) :
     LET pre == DB
         s   == CHOOSE x \in pre.sessions : x.session_id = r.session_id
         res == Run(pre, Call("acceptSessionRequest", s.tutor_id, rid, 0, NoInput))
     IN r.status = "pending" =>
          /\ EnrolledCount(pre, s.session_id) < s.capacity => res.c.status = 200
          /\ EnrolledCount(pre, s.session_id) >= s.capacity =>
                /\ res.c.status = 400
                /\ res.c.message = "This session is already full. Cannot accept more students."
                /\ res.db = pre

\* two requests were pending for a session of capacity 1; the accept of one has
\* just answered 200 and filled the session, the other is still pending
C13_Witness ==
  \E s \in sessions :
     /\ s.capacity = 1
     /\ EnrolledCount(DB, s.session_id) = 1
     /\ \E r \in session_join_requests : r.session_id = s.session_id /\ r.status = "pending"
     /\ messages[Len(messages)].subject = "Request Accepted"

\* session sid was created and a deleteSession has answered 200 for it: ids are
\* handed out in order and only deleteSession's last query removes a sessions row
Deleted(sid) ==
  /\ sid < auto_increment.sessions
  /\ \A s \in sessions : s.session_id # sid

\* what getSessionRequestStatus answers student u about session sid from here
GetStatus(u, sid) ==
  Run(DB, Call("getSessionRequestStatus", u, sid, 0, NoInput)).c.requestStatus

\* C14: in every state after a deleteSession of session S has answered 200,
\* getStatus(student, S) answers none for every student, also when a
\* createRequest or an accept on S was in progress while the deletion ran.
C14_DeletedSessionHasNoStatus ==
  \A sid \in SessionIds \ {0} :
     Deleted(sid) => \A u \in UserIds : GetStatus(u, sid) = "null"

\* C15: getStatus(student, session) answers enrolled whenever the pair has an
\* Enrollment, whatever JoinRequest rows it has; otherwise the status of the
\* pair's JoinRequest if there is one; otherwise none; and it changes no table.
C15_GetStatusPrecedence ==
  \A u \in UserIds, sid \in SessionIds :
     LET pre == DB
         res == Run(pre, Call("getSessionRequestStatus", u, sid, 0, NoInput))
         own == { r \in session_join_requests :
                     r.session_id = sid /\ r.requester_user_id = u }
     IN /\ res.c.status = 200
        /\ res.db = pre
        /\ EnrollmentsOf(sid, u) # {} => res.c.requestStatus = "enrolled"
        /\ (EnrollmentsOf(sid, u) = {} /\ own # {})
              => \A r \in own : res.c.requestStatus = r.status
        /\ (EnrollmentsOf(sid, u) = {} /\ own = {}) => res.c.requestStatus = "null"

\* one session with a student who is enrolled and whose request row says
\* accepted, and another student whose request row is all there is
C15_Witness ==
  \E r1, r2 \in session_join_requests :
     /\ r1.session_id = r2.session_id
     /\ r1.status = "accepted"
     /\ EnrollmentsOf(r1.session_id, r1.requester_user_id) # {}
     /\ r2.status \in {"pending", "denied"}
     /\ EnrollmentsOf(r2.session_id, r2.requester_user_id) = {}

\* a createSession body that the claim C16 calls invalid for caller u
InvalidSessionInput(u, in) ==
  \/ in.startTime <= in.now
  \/ in.endTime <= in.startTime
  \/ in.capacity < 1 \/ in.capacity > 50
  \/ in.courseIds = <<>>
  \/ \E k \in DOMAIN in.courseIds :
        [tutor_user_id |-> u, course_id |-> in.courseIds[k]] \notin tutor_courses
  \/ in.sessionType \notin {"open", "one_on_one"}

\* C16: createSession is refused (400 for a tutor) and inserts no session and no
\* course association whenever start <= now, end <= start, the capacity is
\* outside 1..50, courseIds is empty, a course is not taught by the caller, or
\* the kind is neither open nor one_on_one; every stored session has status
\* scheduled, end > start and a capacity in 1..50.
C16_CreateSessionValidation ==
  /\ \A u \in UserIds, in \in CreateSessionInputs :
        LET pre == DB
            res == Run(pre, Call("createSession", u, 0, 0, in))
        IN InvalidSessionInput(u, in) =>
             /\ res.c.status \in {400, 403}
             /\ (\E x \in users : x.user_id = u /\ x.role = "Tutor") => res.c.status = 400
             /\ res.db = pre
  /\ \A s \in sessions :
        /\ s.status = "scheduled"
        /\ s.end_time > s.start_time
        /\ s.capacity \in 1..50

\* a session with the largest capacity has been created: the valid bodies get
\* through, and the body with one more seat is among those submitted
C16_Witness ==
  /\ \E s \in sessions : s.capacity = 50 /\ s.session_type = "open"
  /\ \E in \in CreateSessionInputs : in.capacity = 51
  /\ \E in \in CreateSessionInputs : in.startTime = in.now

\* the one_on_one bodies of a tutor whose fields other than capacity are valid
OneOnOneInputs(u) ==
  { in \in CreateSessionInputs :
       /\ in.sessionType = "one_on_one"
       /\ in.title # "" /\ TitleLength(in.title) <= MaxTitleLength
       /\ in.courseIds # <<>>
       /\ Cardinality(Range(in.courseIds)) = Len(in.courseIds)
       /\ \A k \in DOMAIN in.courseIds :
             [tutor_user_id |-> u, course_id |-> in.courseIds[k]] \in tutor_courses
       /\ in.startTime > in.now
       /\ in.endTime > in.startTime }

\* createSession by tutor u with body in answers 201 and the session it stores
\* has capacity 1
StoresCapacityOne(u, in) ==
  LET pre == DB
      res == Run(pre, Call("createSession", u, 0, 0, in))
  IN /\ res.c.status = 201
     /\ \E s \in res.db.sessions :
           /\ s \notin pre.sessions
           /\ res.db.sessions = pre.sessions \cup {s}
           /\ s.capacity = 1

\* C17 as stated: createSession with kind one_on_one and all other fields valid
\* answers 201 and stores capacity 1 for every supplied capacity, whatever it is.
C17_OneOnOneAnyCapacity ==
  \A u \in UserIds : \A in \in OneOnOneInputs(u) : StoresCapacityOne(u, in)

\* C17, amended: createSession with kind one_on_one and all other fields valid
\* answers 201 and stores capacity 1 for every supplied capacity in 1..50; a
\* capacity outside 1..50 is refused for a one_on_one session as for any other.
C17_OneOnOneCapacityInRange ==
  \A u \in UserIds : \A in \in OneOnOneInputs(u) :
     /\ in.capacity \in 1..50 => StoresCapacityOne(u, in)
     /\ in.capacity \notin 1..50 =>
           LET res == Run(DB, Call("createSession", u, 0, 0, in))
           IN res.c.status = 400 /\ res.db = DB

\* the stored session is the one a one_on_one body asking for 50 seats yields:
\* it has capacity 1
C17_Witness ==
  \E u \in UserIds : \E in \in OneOnOneInputs(u) :
     /\ in.capacity = 50
     /\ sessions # {}
     /\ sessions = Run([DB EXCEPT !.sessions = {}, !.auto_increment.sessions = 1],
                       Call("createSession", u, 0, 0, in)).db.sessions
     /\ \A s \in sessions : s.capacity = 1

\* C18: in every reachable state, also the one left when a query of
\* createSession fails, every stored session has at least one course
\* association: the session row and its course rows are stored together or not
\* at all.
C18_SessionHasCourses ==
  \A s \in sessions : \E x \in session_courses : x.session_id = s.session_id

\* the call answers with status and leaves every table as it was
Refused(c, status) ==
  LET res == Run(DB, c) IN res.c.status = status /\ res.db = DB

\* C19: deleteSession, removeStudentFromSession, acceptSessionRequest and
\* denySessionRequest by a user who is not the tutor of the target session
\* answer 403, and deleteSession and removeStudentFromSession on a session that
\* is not stored answer 404; in each case no session, Enrollment, JoinRequest
\* or message row is changed or created.
C19_NonOwnerAndAbsentRefused ==
  \A u \in UserIds :
     /\ \A sid \in SessionIds, student \in UserIds :
           LET del == Call("deleteSession", u, sid, 0, NoInput)
               rem == Call("removeStudentFromSession", u, sid, student, NoInput)
           IN IF \E s \in sessions : s.session_id = sid
              THEN OwnerOf(DB, sid) # u => Refused(del, 403) /\ Refused(rem, 403)
              ELSE Refused(del, 404) /\ Refused(rem, 404)
     /\ \A r \in session_join_requests :
           (/\ \E s \in sessions : s.session_id = r.session_id
            /\ OwnerOf(DB, r.session_id) # u)
           => /\ Refused(Call("acceptSessionRequest", u, r.request_id, 0, NoInput), 403)
              /\ Refused(Call("denySessionRequest", u, r.request_id, 0, NoInput), 403)

\* a session with an Enrollment and a pending JoinRequest, which its tutor could
\* delete, remove, accept and deny, and which another user now calls on
C19_Witness ==
  \E s \in sessions :
     /\ \E u \in UserIds : u # s.tutor_id
     /\ \E i \in DOMAIN session_attendees : session_attendees[i].session_id = s.session_id
     /\ \E r \in session_join_requests :
           /\ r.session_id = s.session_id
           /\ r.status = "pending"
           /\ Run(DB, Call("acceptSessionRequest", s.tutor_id, r.request_id, 0, NoInput)).c.status = 200

RespondOps == {"acceptSessionRequest", "denySessionRequest"}

\* the accept and deny calls on request r that its session's tutor can make now
Arriving(r) ==
  IF \E s \in sessions : s.session_id = r.session_id
  THEN { Call(op, OwnerOf(DB, r.session_id), r.request_id, 0, NoInput) : op \in RespondOps }
  ELSE {}

\* the accept and deny calls on request r that are under way: they have read
\* the request row and have not yet written
InProgress(r) ==
  { c \in BagToSet(calls) :
       /\ c.op \in RespondOps
       /\ c.a = r.request_id
       /\ c.pc \in {"select_existing_enrollment", "update_already_enrolled",
                    "update_accepted", "update_denied"} }

\* C20: an accept or deny by the owning tutor on a request whose status is
\* accepted or denied, whether the call arrives now or is already under way
\* next to the call that responded to the request, answers 400 and leaves the
\* request's status, every Enrollment and the messages as they are.
C20_RespondedRequestRefused ==
  \A r \in session_join_requests :
     r.status \in {"accepted", "denied"} =>
        \A c \in Arriving(r) \cup InProgress(r) :
           LET res == Run(DB, c) IN
           /\ res.c.status = 400
           /\ r \in res.db.session_join_requests
           /\ res.db.session_attendees = session_attendees
           /\ res.db.messages = messages

\* the student a removal call takes out of session c.a: removeStudentFromSession
\* names the student in its path, unenrollFromSession is the caller
RemovedStudent(c) == IF c.op = "removeStudentFromSession" THEN c.b ELSE c.user

\* this step is taken by one of the suspended calls in S
StepOf(S) == \E c \in S : CopiesIn(c, calls') < CopiesIn(c, calls)

\* this step belongs to an unenroll or removeStudent that has removed the
\* Enrollment (sid, uid): the whole call, or its UPDATE after its DELETE
RemovalOf(sid, uid) ==
  \/ IsEnrolled(DB, sid, uid) /\ ~IsEnrolled(DB', sid, uid)
  \/ StepOf({ c \in BagToSet(calls) :
                 /\ c.op \in {"removeStudentFromSession", "unenrollFromSession"}
                 /\ c.pc = "update_request"
                 /\ c.a = sid
                 /\ RemovedStudent(c) = uid })

\* this step belongs to a deleteSession of session sid: the whole call, or its
\* DELETE FROM session_join_requests
DeletionOf(sid) ==
  \/ (\E s \in sessions : s.session_id = sid) /\ ~(\E s \in sessions' : s.session_id = sid)
  \/ StepOf({ c \in BagToSet(calls) :
                 c.op = "deleteSession" /\ c.pc = "delete_requests" /\ c.a = sid })

\* C21: in every step an accepted JoinRequest stays accepted, or becomes denied
\* in an unenroll or removeStudent that removed the Enrollment of its (session,
\* student) pair, or is deleted in a deleteSession of its session.
C21_AcceptedIsTerminal ==
  [][\A r \in session_join_requests :
        r.status = "accepted" =>
           LET after == { n \in session_join_requests' : n.request_id = r.request_id } IN
           /\ after = {} => DeletionOf(r.session_id)
           /\ \A n \in after :
                 n.status # "accepted" =>
                    n.status = "denied" /\ RemovalOf(r.session_id, r.requester_user_id)]_vars

\* C22: in every step, a JoinRequest that is pending after the step was pending
\* before it or is a row inserted by the step, which is then the only row of
\* its (session, student) pair; and a row that a step removes, other than with
\* its session, had status denied.
C22_PendingOnlyByReplacement ==
  [][/\ \A n \in session_join_requests' :
           n.status = "pending" =>
              \/ n \in session_join_requests
              \/ /\ n.request_id = auto_increment.session_join_requests
                 /\ RequestsOf(DB', n.session_id, n.requester_user_id) = {n}
     /\ \A r \in session_join_requests :
           (~\E n \in session_join_requests' : n.request_id = r.request_id)
              => r.status = "denied" \/ DeletionOf(r.session_id)]_vars

\* the Enrollments of db without those of the pair (sid, uid), in their order
WithoutEnrollment(db, sid, uid) ==
  SelectSeq(db.session_attendees, LAMBDA a : ~(a.session_id = sid /\ a.user_id = uid))

\* post differs from pre in JoinRequests only by the accepted request of the
\* pair (sid, uid), which is denied in post
DowngradesOnly(pre, post, sid, uid) ==
  LET acc == { r \in RequestsOf(pre, sid, uid) : r.status = "accepted" } IN
  /\ acc # {}
  /\ post.session_join_requests =
        (pre.session_join_requests \ acc) \cup { [r EXCEPT !.status = "denied"] : r \in acc }

\* C23: unenrollFromSession by a student with an Enrollment in the session
\* answers 200, removes that Enrollment and no other, sets the pair's accepted
\* request to denied, and inserts one message, from the student to the session's
\* tutor; the same call repeated right after it, and every call by a student
\* with no Enrollment in the session, answers an error and changes nothing.
C23_UnenrollEffect ==
  \A u \in UserIds, sid \in SessionIds :
     LET c    == Call("unenrollFromSession", u, sid, 0, NoInput)
         pre  == DB
         res  == Run(pre, c)
         post == res.db
     IN IF IsEnrolled(pre, sid, u)
        THEN /\ res.c.status = 200
             /\ post.session_attendees = WithoutEnrollment(pre, sid, u)
             /\ Len(post.session_attendees) = Len(pre.session_attendees) - 1
             /\ DowngradesOnly(pre, post, sid, u)
             /\ KeepsMessages(pre, post)
             /\ Len(NewMessages(pre, post)) = 1
             /\ NewMessages(pre, post)[1].sender_id = u
             /\ NewMessages(pre, post)[1].receiver_id = OwnerOf(pre, sid)
             /\ NewMessages(pre, post)[1].receiver_id # u
             /\ post.sessions = pre.sessions
             /\ Run(post, c).c.status \in {400, 404}
             /\ Run(post, c).db = post
        ELSE /\ res.c.status \in {400, 404}
             /\ post = pre

\* a student has just unenrolled (the message to the tutor is the last one) from
\* a session in which another student stays enrolled with an accepted request
C23_Witness ==
  /\ Len(messages) > 0
  /\ messages[Len(messages)].subject = "Student Unenrolled"
  /\ \E r \in session_join_requests :
        /\ r.requester_user_id = messages[Len(messages)].sender_id
        /\ r.status = "denied"
        /\ ~IsEnrolled(DB, r.session_id, r.requester_user_id)
        /\ \E o \in session_join_requests :
              /\ o.session_id = r.session_id
              /\ o.requester_user_id # r.requester_user_id
              /\ o.status = "accepted"
              /\ IsEnrolled(DB, o.session_id, o.requester_user_id)

\* C24: removeStudentFromSession by the session's tutor for a student with an
\* Enrollment in the session answers 200, removes that Enrollment and no other,
\* sets the pair's accepted request to denied, and inserts one message, from the
\* tutor to that student; for a student with no Enrollment in the session it
\* answers 404 and changes nothing.
C24_RemoveStudentEffect ==
  \A s \in sessions, student \in {0} \cup UserIds :
     LET sid  == s.session_id
         pre  == DB
         res  == Run(pre, Call("removeStudentFromSession", s.tutor_id, sid, student, NoInput))
         post == res.db
     IN IF IsEnrolled(pre, sid, student)
        THEN /\ res.c.status = 200
             /\ post.session_attendees = WithoutEnrollment(pre, sid, student)
             /\ Len(post.session_attendees) = Len(pre.session_attendees) - 1
             /\ DowngradesOnly(pre, post, sid, student)
             /\ KeepsMessages(pre, post)
             /\ Len(NewMessages(pre, post)) = 1
             /\ NewMessages(pre, post)[1].sender_id = s.tutor_id
             /\ NewMessages(pre, post)[1].receiver_id = student
             /\ post.sessions = pre.sessions
        ELSE /\ res.c.status = 404
             /\ post = pre

\* the tutor has just removed a student (the message to the student is the last
\* one) from a session in which another student stays enrolled with an accepted
\* request
C24_Witness ==
  /\ Len(messages) > 0
  /\ messages[Len(messages)].subject = "Session Update"
  /\ \E r \in session_join_requests :
        /\ r.requester_user_id = messages[Len(messages)].receiver_id
        /\ r.status = "denied"
        /\ ~IsEnrolled(DB, r.session_id, r.requester_user_id)
        /\ \E o \in session_join_requests :
              /\ o.session_id = r.session_id
              /\ o.requester_user_id # r.requester_user_id
              /\ o.status = "accepted"
              /\ IsEnrolled(DB, o.session_id, o.requester_user_id)

\* C25: a step in which a query of acceptSessionRequest, denySessionRequest,
\* unenrollFromSession or removeStudentFromSession fails leaves the Enrollments,
\* the JoinRequests with their statuses and the messages as they were before
\* the call began.
C25_FailedResponseChangesNothing ==
  [][FailureIn({"acceptSessionRequest", "denySessionRequest",
                "unenrollFromSession", "removeStudentFromSession"})
        => /\ session_attendees' = session_attendees
           /\ session_join_requests' = session_join_requests
           /\ messages' = messages]_vars

\* C26: a step in which a query of deleteSession fails leaves the sessions, the
\* course associations, the Enrollments and the JoinRequests with their
\* statuses as they were before the call began.
C26_FailedDeleteChangesNothing ==
  [][FailureIn({"deleteSession"})
        => /\ sessions' = sessions
           /\ session_courses' = session_courses
           /\ session_attendees' = session_attendees
           /\ session_join_requests' = session_join_requests]_vars

\* the statuses of the business-rule failures: validation, capacity, duplicate,
\* invalid-state, self-request and already-enrolled answer 400, authorization
\* 403, not-found 404
BusinessFailures == {400, 403, 404}

\* C27: every call of createSession, sendSessionRequest, acceptSessionRequest,
\* denySessionRequest, unenrollFromSession, removeStudentFromSession or
\* deleteSession that answers a business-rule failure leaves every session,
\* Enrollment, JoinRequest and message as it was.
C27_FailureChangesNothing ==
  \A c \in AllCalls :
     LET res == Run(DB, c) IN
     res.c.status \in BusinessFailures => res.db = DB

RECURSIVE Steps(_, _)
\* the (store, call) pairs call c goes through, one per awaited query and its
\* response, when it runs from store db with no other call in between
Steps(db, c) ==
  {[db |-> db, c |-> c]}
     \cup (IF c.pc = "done" THEN {} ELSE LET r == Handler(db, c) IN Steps(r.db, r.c))

\* the students a deleteSession of session sid has to notify: the requesters
\* of its pending requests and its attendees
ToNotify(db, sid) ==
  { r.requester_user_id : r \in PendingOf(db, sid) }
     \cup { a.user_id : a \in { x \in Range(db.session_attendees) : x.session_id = sid } }

\* post holds a cancellation message to uid that pre does not hold, filed in
\* its sender's sent folder and in uid's inbox
CancellationWritten(pre, post, uid) ==
  \E i \in DOMAIN NewMessages(pre, post) :
     LET m == NewMessages(pre, post)[i] IN
     /\ m.subject = "Session Cancelled"
     /\ m.receiver_id = uid
     /\ \E x \in post.user_messages :
           x.message_id = m.message_id /\ x.user_id = m.sender_id /\ x.folder = "sent"
     /\ \E x \in post.user_messages :
           x.message_id = m.message_id /\ x.user_id = uid /\ x.folder = "inbox"

\* the session_courses, session_attendees and session_join_requests rows of
\* session sid, the request rows by their request_id
DependentRows(db, sid) ==
  [courses   |-> { x \in db.session_courses : x.session_id = sid },
   attendees |-> SelectSeq(db.session_attendees, LAMBDA a : a.session_id = sid),
   requests  |-> { r.request_id : r \in { x \in db.session_join_requests : x.session_id = sid } }]

NoDependentRows == [courses |-> {}, attendees |-> <<>>, requests |-> {}]

\* C28: at every await of a deleteSession by the session's tutor, if a course
\* association, Enrollment, JoinRequest or the session row of the session has
\* been removed, then the cancellation message of every pending requester and
\* every attendee has been written; and if the session row has been removed,
\* so have all its dependent rows.
C28_NotifyBeforeDelete ==
  \A s \in sessions :
     LET sid == s.session_id
         pre == DB
     IN \A x \in Steps(pre, Call("deleteSession", s.tutor_id, sid, 0, NoInput)) :
           LET gone == ~\E t \in x.db.sessions : t.session_id = sid IN
           /\ (gone \/ DependentRows(x.db, sid) # DependentRows(pre, sid))
                 => \A uid \in ToNotify(pre, sid) : CancellationWritten(pre, x.db, uid)
           /\ gone => DependentRows(x.db, sid) = NoDependentRows

\* a session with two attendees, whose deleteSession goes through a store where
\* the course associations are removed and the session row is still there
C28_Witness ==
  \E s \in sessions :
     /\ EnrolledCount(DB, s.session_id) = 2
     /\ \E x \in Steps(DB, Call("deleteSession", s.tutor_id, s.session_id, 0, NoInput)) :
           /\ x.c.pc = "delete_attendees"
           /\ \E t \in x.db.sessions : t.session_id = s.session_id
           /\ DependentRows(x.db, s.session_id).courses = {}

\* the session a call is about: the one named in its path, the one of the
\* request named in its path, or the one createSession is about to insert;
\* 0 when the request is not stored
Target(db, c) ==
  IF c.op = "createSession" THEN db.auto_increment.sessions
  ELSE IF c.op \in RespondOps
  THEN LET rs == { r \in db.session_join_requests : r.request_id = c.a } IN
       IF rs = {} THEN 0 ELSE (CHOOSE r \in rs : TRUE).session_id
  ELSE c.a

\* the session row of sid with its capacity and status, its Enrollments in
\* their order and its JoinRequests
SessionState(db, sid) ==
  [session   |-> { s \in db.sessions : s.session_id = sid },
   attendees |-> SelectSeq(db.session_attendees, LAMBDA a : a.session_id = sid),
   requests  |-> { r \in db.session_join_requests : r.session_id = sid }]

\* the Enrollments and JoinRequests of a store without the identifiers the
\* store assigns (request_id, message_id), which depend on the order of INSERTs
Outcome(db) ==
  [sid \in SessionIdsT |->
     [attendees |-> SessionState(db, sid).attendees,
      requests  |-> { [session_id        |-> r.session_id,
                       requester_user_id |-> r.requester_user_id,
                       tutor_user_id     |-> r.tutor_user_id,
                       status            |-> r.status] : r \in SessionState(db, sid).requests }]]

RECURSIVE Interleavings(_)
\* the final stores of every interleaving of two calls at their awaits; X is a
\* set of [db, c1, c2] the two calls can be at after the same number of steps
Interleavings(X) ==
  LET done == { x \in X : x.c1.pc = "done" /\ x.c2.pc = "done" }
      next == { LET r == Handler(x.db, x.c1) IN [db |-> r.db, c1 |-> r.c, c2 |-> x.c2] :
                   x \in { y \in X : y.c1.pc # "done" } }
              \cup
              { LET r == Handler(x.db, x.c2) IN [db |-> r.db, c1 |-> x.c1, c2 |-> r.c] :
                   x \in { y \in X : y.c2.pc # "done" } }
  IN { x.db : x \in done } \cup (IF next = {} THEN {} ELSE Interleavings(next))

\* C29: every call leaves the session row, the Enrollments and the JoinRequests
\* of every session other than the one it is about as they were; and two calls
\* about two different sessions end, in every interleaving of their steps, with
\* the Enrollments and JoinRequests that running one after the other gives, in
\* either order.
C29_SessionsAreIndependent ==
  /\ \A c \in CallsT : \A sid \in SessionIdsT :
        sid # Target(DB, c) => SessionState(Run(DB, c).db, sid) = SessionState(DB, sid)
  /\ \A c1, c2 \in CallsT :
        (Target(DB, c1) # 0 /\ Target(DB, c1) < Target(DB, c2))
           => { Outcome(db) : db \in Interleavings({[db |-> DB, c1 |-> c1, c2 |-> c2]}) }
                 = { Outcome(Run(Run(DB, c1).db, c2).db) }

\* two sessions, one with a pending request its tutor can accept and one with
\* an Enrollment its student can give up: two calls about different sessions
\* that both write
C29_Witness ==
  \E r \in session_join_requests : \E i \in DOMAIN session_attendees :
     LET a == session_attendees[i] IN
     /\ r.session_id # a.session_id
     /\ r.status = "pending"
     /\ Run(DB, Call("acceptSessionRequest", r.tutor_user_id, r.request_id, 0, NoInput)).c.status = 200
     /\ Run(DB, Call("unenrollFromSession", a.user_id, a.session_id, 0, NoInput)).c.status = 200

\* C30: in every state no JoinRequest and no Enrollment of a stored session has
\* the session's tutor as its student, and a sendSessionRequest by the tutor of
\* a stored session, whatever tutor id it names, answers 400 and changes
\* nothing: no request and no message is inserted.
C30_NoSelfRequest ==
  \A s \in sessions :
     /\ \A r \in session_join_requests :
           r.session_id = s.session_id => r.requester_user_id # s.tutor_id
     /\ \A i \in DOMAIN session_attendees :
           session_attendees[i].session_id = s.session_id
              => session_attendees[i].user_id # s.tutor_id
     /\ \A tid \in {0} \cup UserIds :
           Refused(Call("sendSessionRequest", s.tutor_id, s.session_id, tid, NoInput), 400)

\* a session that is not full and holds a student's Enrollment and another
\* student's pending request, so that only the self-request test stands
\* between its tutor and a request
C30_Witness ==
  \E s \in sessions :
     /\ ~IsFull(EnrolledCount(DB, s.session_id), s.capacity)
     /\ RequestsOf(DB, s.session_id, s.tutor_id) = {}
     /\ \E i \in DOMAIN session_attendees : session_attendees[i].session_id = s.session_id
     /\ \E r \in session_join_requests : r.session_id = s.session_id /\ r.status = "pending"

\* C31: a sendSessionRequest that answers 201 inserts one message, of type
\* session_join_request, from the student to the tutor of the session, and one
\* pending JoinRequest whose message_id is that message's and whose
\* tutor_user_id is the session's tutor; every other answer inserts no message.
C31_RequestNotifiesTutor ==
  \A u \in UserIds, sid \in SessionIds, tid \in {0} \cup UserIds :
     LET pre  == DB
         res  == Run(pre, Call("sendSessionRequest", u, sid, tid, NoInput))
         post == res.db
         new  == NewMessages(pre, post)
     IN /\ KeepsMessages(pre, post)
        /\ IF res.c.status = 201
           THEN /\ Len(new) = 1
                /\ new[1].message_type = "session_join_request"
                /\ new[1].sender_id = u
                /\ new[1].receiver_id = OwnerOf(pre, sid)
                /\ \E r \in post.session_join_requests :
                      /\ r \notin pre.session_join_requests
                      /\ post.session_join_requests \ pre.session_join_requests = {r}
                      /\ r.session_id = sid
                      /\ r.requester_user_id = u
                      /\ r.status = "pending"
                      /\ r.message_id = new[1].message_id
                      /\ r.tutor_user_id = OwnerOf(pre, sid)
           ELSE Len(new) = 0

\* a student's request has just been stored (its message is the last one) for
\* a session that already holds another student's request
C31_Witness ==
  /\ Len(messages) > 1
  /\ messages[Len(messages)].message_type = "session_join_request"
  /\ \E r \in session_join_requests :
        /\ r.message_id = messages[Len(messages)].message_id
        /\ r.status = "pending"
        /\ r.requester_user_id = messages[Len(messages)].sender_id
        /\ \E o \in session_join_requests :
              o.session_id = r.session_id /\ o.requester_user_id # r.requester_user_id

\* C32: in every step every stored session row stays as it is, with its tutor,
\* kind, capacity, time window and status, or is removed by the last DELETE of
\* a deleteSession that the session's tutor called.
C32_SessionOnlyDeletedByOwner ==
  [][\A s \in sessions :
        \/ s \in sessions'
        \/ /\ ~\E t \in sessions' : t.session_id = s.session_id
           /\ StepOf({ c \in BagToSet(calls) :
                          /\ c.op = "deleteSession"
                          /\ c.pc = "delete_session"
                          /\ c.a = s.session_id
                          /\ c.user = s.tutor_id })]_vars

\* a session that took a request and an acceptance has been deleted
C32_Witness ==
  /\ sessions = {}
  /\ auto_increment.sessions > 1
  /\ \E i \in DOMAIN messages : messages[i].subject = "Request Accepted"
  /\ \E i \in DOMAIN messages : messages[i].subject = "Session Cancelled"

\* C33: getSessionEnrollments by the session's tutor answers 200 with the
\* session's Enrollments, earliest first, their number as enrolledCount, the
\* session's capacity, and the pending JoinRequests of the session and no
\* other; by any other user it answers 403; in both cases the store is as it was.
C33_ListEnrollments ==
  \A s \in sessions, u \in UserIds :
     LET sid == s.session_id
         res == Run(DB, Call("getSessionEnrollments", u, sid, 0, NoInput))
         d   == res.c.data
         own == { i \in DOMAIN session_attendees : session_attendees[i].session_id = sid }
     IN /\ res.db = DB
        /\ IF u = s.tutor_id
           THEN /\ res.c.status = 200
                /\ d.capacity = s.capacity
                /\ d.enrolledCount = Cardinality(own)
                /\ Len(d.enrollments) = Cardinality(own)
                /\ \A i \in own : \E k \in DOMAIN d.enrollments : d.enrollments[k] = session_attendees[i]
                /\ \A i, j \in own :
                      i < j => \E k, l \in DOMAIN d.enrollments :
                                  /\ k < l
                                  /\ d.enrollments[k] = session_attendees[i]
                                  /\ d.enrollments[l] = session_attendees[j]
                /\ Range(d.pendingRequests) = PendingOf(DB, sid)
                /\ Len(d.pendingRequests) = Cardinality(PendingOf(DB, sid))
           ELSE res.c.status = 403 /\ d = NoRow

\* a session with two Enrollments, the later one of the student with the lower
\* id, listed by its tutor
C33_Witness ==
  \E s \in sessions :
     /\ Len(session_attendees) = 2
     /\ session_attendees[1].session_id = s.session_id
     /\ session_attendees[2].session_id = s.session_id
     /\ session_attendees[1].user_id > session_attendees[2].user_id
     /\ Run(DB, Call("getSessionEnrollments", s.tutor_id, s.session_id, 0, NoInput)).c.status = 200

\* the calls that take student uid out of session s
RemovalCalls(s, uid) ==
  { Call("unenrollFromSession", uid, s.session_id, 0, NoInput),
    Call("removeStudentFromSession", s.tutor_id, s.session_id, uid, NoInput) }

\* C34: when a session is full, each of unenrollFromSession and
\* removeStudentFromSession for one of its attendees answers 200, and in the
\* store it leaves a sendSessionRequest by every student who is not enrolled
\* and has no pending request answers 201, and an acceptSessionRequest of every
\* pending request of the session answers 200.
C34_FreedSeatIsAvailable ==
  \A s \in sessions :
     IsFull(EnrolledCount(DB, s.session_id), s.capacity) =>
        \A a \in { x \in Range(session_attendees) : x.session_id = s.session_id } :
           \A rc \in RemovalCalls(s, a.user_id) :
              LET mid == Run(DB, rc) IN
              /\ mid.c.status = 200
              /\ \A u \in UserIds :
                    (/\ u # s.tutor_id
                     /\ ~IsEnrolled(mid.db, s.session_id, u)
                     /\ \A r \in RequestsOf(mid.db, s.session_id, u) : r.status # "pending")
                    => Run(mid.db, Call("sendSessionRequest", u, s.session_id, s.tutor_id,
                                        NoInput)).c.status = 201
              /\ \A r \in PendingOf(mid.db, s.session_id) :
                    Run(mid.db, Call("acceptSessionRequest", s.tutor_id, r.request_id, 0,
                                     NoInput)).c.status = 200

\* a student has just unenrolled from a session of capacity 1, which was full,
\* and another student's request is pending
C34_Witness ==
  /\ Len(messages) > 0
  /\ messages[Len(messages)].subject = "Student Unenrolled"
  /\ \E s \in sessions :
        /\ s.capacity = 1
        /\ EnrolledCount(DB, s.session_id) = 0
        /\ \E r \in PendingOf(DB, s.session_id) :
              r.requester_user_id # messages[Len(messages)].sender_id

(* ------------------------ message folders (SpecM) ---------------------- *)
RECURSIVE ReachableBy(_, _)
\* the stores reached from the stores X by any number of the calls Cs, each run
\* to completion
ReachableBy(X, Cs) ==
  LET Y == X \cup { Run(db, c).db : db \in X, c \in Cs } IN
  IF Y = X THEN X ELSE ReachableBy(Y, Cs)

\* the deleteMessage, emptyTrash, restoreFromTrash, updateDraft and sendDraft
\* calls of the users U
FolderCalls(U) ==
  { Call(op, u, mid, 0, NoInput) :
       op \in {"deleteMessage", "restoreFromTrash", "sendDraft"}, u \in U, mid \in MessageIdsM }
  \cup { Call("emptyTrash", u, 0, 0, NoInput) : u \in U }
  \cup { Call("updateDraft", u, mid, 0, in) : u \in U, mid \in MessageIdsM, in \in DraftInputs }

\* message m lies in its receiver's inbox
Delivered(db, m) ==
  /\ m.receiver_id # m.sender_id
  /\ \E um \in CopiesOf(db, m.receiver_id, m.message_id) : um.folder = "inbox"

\* call c on store db files a copy of message mid in somebody's inbox
Delivers(db, c, mid) ==
  \E um \in Run(db, c).db.user_messages \ db.user_messages :
     um.message_id = mid /\ um.folder = "inbox" /\ CopiesOf(db, um.user_id, mid) = {}

\* C35: once a message lies in its receiver's inbox, no sequence of
\* deleteMessage, emptyTrash, restoreFromTrash, updateDraft and sendDraft calls
\* by its sender and its receiver changes its receiver, subject or body, and no
\* call of such a sequence delivers it again.
C35_DeliveredMessageIsImmutable ==
  \A m \in Range(messages) :
     Delivered(DB, m) =>
        LET Cs == FolderCalls({m.sender_id, m.receiver_id}) IN
        \A db \in ReachableBy({DB}, Cs) :
           /\ MessageRows(db, m.message_id) = {m}
           /\ \A c \in Cs : ~Delivers(db, c, m.message_id)

\* the deleteMessage and emptyTrash calls of the users other than u
OthersTrashCalls(u) ==
  { Call("deleteMessage", v, mid, 0, NoInput) : v \in UserIds \ {u}, mid \in MessageIdsM }
  \cup { Call("emptyTrash", v, 0, 0, NoInput) : v \in UserIds \ {u} }

\* C39: for a user's copy of a message in inbox, sent or drafts, deleteMessage
\* followed by restoreFromTrash puts the copy back into the folder it was in,
\* whatever deleteMessage and emptyTrash calls the other users make in between;
\* deleteMessage on a copy in trash removes that copy and no other row.
C39_RestoreReturnsToFolder ==
  \A um \in user_messages :
     LET u     == um.user_id
         mid   == um.message_id
         after == Run(DB, Call("deleteMessage", u, mid, 0, NoInput)).db
     IN
     IF um.folder = "trash"
     THEN after.user_messages = user_messages \ {um} /\ after.messages = messages
     ELSE \A db \in ReachableBy({after}, OthersTrashCalls(u)) :
             CopiesOf(Run(db, Call("restoreFromTrash", u, mid, 0, NoInput)).db, u, mid) = {um}

(* ----------------------- deleted sessions (SpecC) ---------------------- *)
\* the session ids that session_join_requests and session_attendees rows name
ReferencedSessions ==
  { r.session_id : r \in session_join_requests }
  \cup { a.session_id : a \in Range(session_attendees) }

\* C36: in every reachable state, also while and after deleteSession
\* interleaves with a sendSessionRequest or an acceptSessionRequest on the same
\* session, every JoinRequest and every Enrollment names a session that exists.
C36_NoRowOfDeletedSession ==
  \A sid \in ReferencedSessions : \E s \in sessions : s.session_id = sid

\* the unenrollFromSession and removeStudentFromSession calls about to run their
\* DELETE FROM session_attendees
AtDeleteAttendee ==
  { c \in BagToSet(calls) :
       /\ c.op \in {"removeStudentFromSession", "unenrollFromSession"}
       /\ c.pc = "delete_attendee" }

\* C37: an unenrollFromSession or removeStudentFromSession call whose DELETE
\* removes no Enrollment row (another call removed it first) answers with a
\* failure and goes on to no notification, so that as many notifications are
\* written as rows are removed.
C37_NotificationPerRemovedRow ==
  [][ \A c \in AtDeleteAttendee :
         (StepOf({c}) /\ session_attendees' = session_attendees)
            => /\ Advance(DB, c).c.pc = "done"
               /\ Advance(DB, c).c.status \in BusinessFailures
               /\ messages' = messages ]_vars

\* a session-cancelled notification of deleteSession has been written for uid
\* (the model's stores hold one session, so every notification is about it)
CancellationSent(uid) ==
  \E m \in Range(messages) : m.subject = "Session Cancelled" /\ m.receiver_id = uid

\* C38: once deleteSession has written a student's session-cancelled
\* notification for session S, no step writes an acceptance notification for
\* that student and no step gives the student an Enrollment in S, also when an
\* acceptSessionRequest of the student's request was in progress meanwhile.
C38_CancelledStaysCancelled ==
  [][ \A uid \in UserIds :
         CancellationSent(uid) =>
            /\ \A i \in DOMAIN NewMessages(DB, DB') :
                  ~(/\ NewMessages(DB, DB')[i].subject = "Request Accepted"
                    /\ NewMessages(DB, DB')[i].receiver_id = uid)
            /\ \A sid \in SessionIds \ {0} :
                  IsEnrolled(DB', sid, uid) => IsEnrolled(DB, sid, uid) ]_vars

====
